---------------------------- MODULE Spec2Model ----------------------------
(***************************************************************************)
(* Model of the desktop supervisor's folder importer                       *)
(* (desktop/app/src-tauri/src/commands.rs).                                *)
(*                                                                         *)
(* One import_folder call runs against a small filesystem while an         *)
(* adversary may replace directories inside the workspace by symbolic      *)
(* links that point outside it.  The importer's steps are the calls        *)
(* do_import makes (ensure_within_workspace, safe_create_parent_dirs,      *)
(* safe_create_dir, safe_copy_file); the adversary may act between any two *)
(* of them.  Each of those calls is taken as one atomic step, so the model  *)
(* has fewer interleavings than the real program, never more.              *)
(***************************************************************************)
EXTENDS Integers, Sequences, FiniteSets, TLC

\* ------------------------------------------------------------------------
\* Bounds of the model and constants of the program
\* ------------------------------------------------------------------------

\* How many directory -> symlink swaps the adversary may perform.
MaxSwaps == 1

\* How many symbolic links one path resolution may follow (ELOOP beyond).
MaxLinkHops == 2

\* commands.rs:500  `if total_files > 1000 { 10 } else { 1 }`
BatchThreshold == 1000
BatchInterval == 10

\* ------------------------------------------------------------------------
\* Paths as strings: std::path::Path::components, per platform
\* ------------------------------------------------------------------------

\* A path string is a tuple of one-character strings.
SepChars(plat) == IF plat = "windows" THEN {"/", "\\"} ELSE {"/"}

IsLetter(c) == c \notin {"/", "\\", ":", "."}

\* The pieces between separators, empty pieces dropped, each as a string.
RECURSIVE SplitPieces(_, _, _)
SplitPieces(s, seps, cur) ==
    IF s = <<>>
    THEN IF cur = "" THEN <<>> ELSE <<cur>>
    ELSE IF Head(s) \in seps
         THEN (IF cur = "" THEN <<>> ELSE <<cur>>) \o SplitPieces(Tail(s), seps, "")
         ELSE SplitPieces(Tail(s), seps, cur \o Head(s))

\* The position after the n-th run of non-separators starting at i
\* (used to skip the server and share of a UNC prefix).
RECURSIVE SkipPiece(_, _, _)
SkipPiece(s, seps, i) ==
    IF i > Len(s) \/ s[i] \in seps THEN i ELSE SkipPiece(s, seps, i + 1)

\* Windows prefix of a path string: "none", "disk" (X:) or "unc" (\\server\share,
\* which also stands for the verbatim and device forms).  Unix has none.
PrefixKind(s, plat) ==
    IF plat # "windows" THEN "none"
    ELSE IF Len(s) >= 2 /\ s[1] \in SepChars(plat) /\ s[2] \in SepChars(plat) THEN "unc"
    ELSE IF Len(s) >= 2 /\ IsLetter(s[1]) /\ s[2] = ":" THEN "disk"
    ELSE "none"

PrefixLen(s, plat) ==
    CASE PrefixKind(s, plat) = "disk" -> 2
      [] PrefixKind(s, plat) = "unc" ->
            LET afterServer == SkipPiece(s, SepChars(plat), 3)
                afterShare  == SkipPiece(s, SepChars(plat), afterServer + 1)
            IN  IF afterShare - 1 > Len(s) THEN Len(s) ELSE afterShare - 1
      [] OTHER -> 0

AfterPrefix(s, plat) == SubSeq(s, PrefixLen(s, plat) + 1, Len(s))

\* Path::has_root: a separator right after the prefix; a UNC prefix is rooted.
HasRoot(s, plat) ==
    \/ PrefixKind(s, plat) = "unc"
    \/ LET r == AfterPrefix(s, plat) IN r # <<>> /\ r[1] \in SepChars(plat)

\* Path::is_absolute: rooted on Unix; prefix and root on Windows.
IsAbsolute(s, plat) ==
    IF plat = "windows"
    THEN PrefixKind(s, plat) # "none" /\ HasRoot(s, plat)
    ELSE HasRoot(s, plat)

\* One component of the body: a piece "." is dropped unless it leads a path
\* with no root (CurDir); ".." is ParentDir; anything else is a Normal name.
RECURSIVE PieceComps(_, _, _)
PieceComps(pieces, i, leadCur) ==
    IF i > Len(pieces) THEN <<>>
    ELSE IF pieces[i] = "." /\ ~(i = 1 /\ leadCur) THEN PieceComps(pieces, i + 1, leadCur)
    ELSE << CASE pieces[i] = "."  -> [k |-> "CurDir",    n |-> "."]
              [] pieces[i] = ".." -> [k |-> "ParentDir", n |-> ".."]
              [] OTHER            -> [k |-> "Normal",    n |-> pieces[i]] >>
         \o PieceComps(pieces, i + 1, leadCur)

\* Path::components of a path string.
Components(s, plat) ==
    LET pk     == PrefixKind(s, plat)
        root   == HasRoot(s, plat)
        pieces == SplitPieces(AfterPrefix(s, plat), SepChars(plat), "")
    IN  (IF pk # "none" THEN << [k |-> "Prefix", n |-> pk] >> ELSE <<>>)
        \o (IF root THEN << [k |-> "RootDir", n |-> "/"] >> ELSE <<>>)
        \o PieceComps(pieces, 1, ~root)


\* ------------------------------------------------------------------------
\* Logical paths: the components below the filesystem root, and whether the
\* path is on the workspace's volume at all
\* ------------------------------------------------------------------------

\* The workspace directory (main.rs: data_dir.join("workspace")), and the
\* drive it is on when the platform has drives.
WsNames == << "w" >>
WsDrive == "c"

IsPrefix(a, b) == Len(a) <= Len(b) /\ SubSeq(b, 1, Len(a)) = a

Front(s) == SubSeq(s, 1, Len(s) - 1)

Last(s) == s[Len(s)]

NormalComp(name) == [k |-> "Normal", n |-> name]

RECURSIVE NormalComps(_)
NormalComps(names) ==
    IF names = <<>> THEN <<>> ELSE << NormalComp(Head(names)) >> \o NormalComps(Tail(names))

RECURSIVE CompNames(_)
CompNames(comps) ==
    IF comps = <<>> THEN <<>> ELSE << Head(comps).n >> \o CompNames(Tail(comps))

\* The components of a path that name something: no prefix, root or ".".
RECURSIVE BodyOf(_)
BodyOf(comps) ==
    IF comps = <<>> THEN <<>>
    ELSE (IF Head(comps).k \in {"Normal", "ParentDir"} THEN << Head(comps) >> ELSE <<>>)
         \o BodyOf(Tail(comps))

WorkspacePath == [vol |-> "ws", comps |-> NormalComps(WsNames)]

\* PathBuf::join(base, sub) for a path string sub (PathBuf::push): an absolute
\* sub, or one with a prefix, replaces base; on Windows a sub with a root and
\* no prefix keeps only base's prefix; anything else is appended.
JoinString(base, s, plat) ==
    LET body == BodyOf(Components(s, plat))
    IN  IF IsAbsolute(s, plat) \/ PrefixKind(s, plat) # "none"
        THEN [vol   |-> IF plat = "unix"
                           \/ (PrefixKind(s, plat) = "disk" /\ s[1] = WsDrive
                               /\ HasRoot(s, plat))
                        THEN "ws" ELSE "other",
              comps |-> body]
        ELSE IF HasRoot(s, plat)
        THEN [vol |-> base.vol, comps |-> body]
        ELSE [vol |-> base.vol, comps |-> base.comps \o body]

\* PathBuf::join(base, name) for one plain file name.
JoinName(base, name) == [vol |-> base.vol, comps |-> Append(base.comps, NormalComp(name))]

RECURSIVE JoinNames(_, _)
JoinNames(base, names) ==
    IF names = <<>> THEN base ELSE JoinNames(JoinName(base, Head(names)), Tail(names))

\* ------------------------------------------------------------------------
\* validate_subpath
\* ------------------------------------------------------------------------

HasKind(comps, kind) == \E i \in 1..Len(comps) : comps[i].k = kind

validate_subpath(s, plat) ==
    IF IsAbsolute(s, plat)
    THEN [ok |-> FALSE, err |-> "subpath_absolute"]
    ELSE IF HasKind(Components(s, plat), "ParentDir")
    THEN [ok |-> FALSE, err |-> "subpath_parent_dir"]
    ELSE IF HasKind(Components(s, plat), "Prefix")
    THEN [ok |-> FALSE, err |-> "subpath_prefix"]
    ELSE [ok |-> TRUE, err |-> ""]

\* ------------------------------------------------------------------------
\* The filesystem: a function from the physical paths that exist (tuples of
\* names below the root) to nodes.  The root itself is a directory.
\* ------------------------------------------------------------------------

DirNode == [k |-> "dir", to |-> <<>>, d |-> ""]
FileNode(data) == [k |-> "file", to |-> <<>>, d |-> data]
LinkNode(target) == [k |-> "link", to |-> target, d |-> ""]

KindAt(f, p) == IF p = <<>> THEN "dir" ELSE f[p].k

\* Path resolution that follows every symbolic link (canonicalize).
RECURSIVE Walk(_, _, _, _)
Walk(f, cur, rest, hops) ==
    IF rest = <<>> THEN [ok |-> TRUE, p |-> cur, err |-> ""]
    ELSE LET q == Append(cur, Head(rest))
         IN  IF q \notin DOMAIN f THEN [ok |-> FALSE, p |-> q, err |-> "NotFound"]
             ELSE IF f[q].k = "link"
             THEN IF hops = 0 THEN [ok |-> FALSE, p |-> q, err |-> "Loop"]
                  ELSE Walk(f, <<>>, f[q].to \o Tail(rest), hops - 1)
             ELSE IF f[q].k = "file" /\ Tail(rest) # <<>>
             THEN [ok |-> FALSE, p |-> q, err |-> "NotADirectory"]
             ELSE Walk(f, q, Tail(rest), hops)

Canonicalize(f, path) == Walk(f, <<>>, path, MaxLinkHops)

\* Path::exists and Path::is_dir follow links.
Exists(f, path) == Canonicalize(f, path).ok

IsDir(f, path) ==
    LET c == Canonicalize(f, path) IN c.ok /\ KindAt(f, c.p) = "dir"

\* What a system call that names `path` acts on: the links of the parent are
\* followed, the last component is taken as it is.
ResolveParent(f, path) ==
    LET par == Canonicalize(f, Front(path))
    IN  IF ~par.ok THEN [ok |-> FALSE, q |-> <<>>, err |-> par.err]
        ELSE IF KindAt(f, par.p) # "dir"
        THEN [ok |-> FALSE, q |-> <<>>, err |-> "NotADirectory"]
        ELSE [ok |-> TRUE, q |-> Append(par.p, Last(path)), err |-> ""]

Put(f, q, node) == [p \in DOMAIN f \cup {q} |-> IF p = q THEN node ELSE f[p]]

Without(f, gone) == [p \in DOMAIN f \ gone |-> f[p]]

Subtree(f, q) == { p \in DOMAIN f : IsPrefix(q, p) }

\* mkdir(2), given what the path resolved to.
MkdirAt(f, rp) ==
    IF ~rp.ok THEN [ok |-> FALSE, f |-> f, at |-> <<>>, err |-> rp.err]
    ELSE IF rp.q \in DOMAIN f
    THEN [ok |-> FALSE, f |-> f, at |-> rp.q, err |-> "AlreadyExists"]
    ELSE [ok |-> TRUE, f |-> Put(f, rp.q, DirNode), at |-> rp.q, err |-> ""]

Mkdir(f, path) ==
    IF path = <<>> THEN [ok |-> FALSE, f |-> f, at |-> <<>>, err |-> "AlreadyExists"]
    ELSE MkdirAt(f, ResolveParent(f, path))

\* std::fs::create_dir_all: mkdir; on NotFound create the parent first and
\* retry; any other error is forgiven when the path is a directory.
RECURSIVE CreateDirAll(_, _)

\* ... the second mkdir, after the parent `par` was created.
CreateDirAllSecond(path, par, again) ==
    IF again.ok
    THEN [ok |-> TRUE, f |-> again.f, made |-> par.made \cup {again.at}, err |-> ""]
    ELSE IF IsDir(par.f, path)
    THEN [ok |-> TRUE, f |-> par.f, made |-> par.made, err |-> ""]
    ELSE [ok |-> FALSE, f |-> par.f, made |-> par.made, err |-> again.err]

\* ... after create_dir_all of the parent returned `par`.
CreateDirAllRetry(path, par) ==
    IF ~par.ok THEN par ELSE CreateDirAllSecond(path, par, Mkdir(par.f, path))

\* ... after the first mkdir returned `first`.
CreateDirAllFirst(f, path, first) ==
    IF first.ok THEN [ok |-> TRUE, f |-> first.f, made |-> {first.at}, err |-> ""]
    ELSE IF first.err # "NotFound"
    THEN IF IsDir(f, path) THEN [ok |-> TRUE, f |-> f, made |-> {}, err |-> ""]
         ELSE [ok |-> FALSE, f |-> f, made |-> {}, err |-> first.err]
    ELSE CreateDirAllRetry(path, CreateDirAll(f, Front(path)))

CreateDirAll(f, path) == CreateDirAllFirst(f, path, Mkdir(f, path))

\* std::fs::remove_dir_all: a symbolic link is unlinked, a directory is removed
\* with everything below it; errors leave the filesystem as it is.
RemoveDirAll(f, path) ==
    LET rp == ResolveParent(f, path)
    IN  IF ~rp.ok \/ rp.q \notin DOMAIN f THEN [f |-> f, gone |-> {}]
        ELSE IF f[rp.q].k = "link" THEN [f |-> Without(f, {rp.q}), gone |-> {rp.q}]
        ELSE IF f[rp.q].k = "dir"
        THEN [f |-> Without(f, Subtree(f, rp.q)), gone |-> Subtree(f, rp.q)]
        ELSE [f |-> f, gone |-> {}]

\* symlink_metadata(path).is_symlink()
IsSymlink(f, path) ==
    LET rp == ResolveParent(f, path)
    IN  rp.ok /\ rp.q \in DOMAIN f /\ f[rp.q].k = "link"

\* open(path, O_WRONLY|O_CREAT|O_TRUNC|O_NOFOLLOW) and the write of `data`.
OpenNoFollowAndWrite(f, path, data) ==
    LET rp == ResolveParent(f, path)
    IN  IF ~rp.ok THEN [ok |-> FALSE, f |-> f, at |-> <<>>, err |-> rp.err]
        ELSE IF rp.q \in DOMAIN f /\ f[rp.q].k = "link"
        THEN [ok |-> FALSE, f |-> f, at |-> rp.q, err |-> "Loop"]
        ELSE IF rp.q \in DOMAIN f /\ f[rp.q].k = "dir"
        THEN [ok |-> FALSE, f |-> f, at |-> rp.q, err |-> "IsADirectory"]
        ELSE [ok |-> TRUE, f |-> Put(f, rp.q, FileNode(data)), at |-> rp.q, err |-> ""]

\* std::fs::copy(source, path): the destination is opened following links.
RECURSIVE OpenFollowAndWrite(_, _, _, _)
OpenFollowAndWrite(f, path, data, hops) ==
    LET rp == ResolveParent(f, path)
    IN  IF ~rp.ok THEN [ok |-> FALSE, f |-> f, at |-> <<>>, err |-> rp.err]
        ELSE IF rp.q \in DOMAIN f /\ f[rp.q].k = "link"
        THEN IF hops = 0 THEN [ok |-> FALSE, f |-> f, at |-> rp.q, err |-> "Loop"]
             ELSE OpenFollowAndWrite(f, f[rp.q].to, data, hops - 1)
        ELSE IF rp.q \in DOMAIN f /\ f[rp.q].k = "dir"
        THEN [ok |-> FALSE, f |-> f, at |-> rp.q, err |-> "IsADirectory"]
        ELSE [ok |-> TRUE, f |-> Put(f, rp.q, FileNode(data)), at |-> rp.q, err |-> ""]


\* ------------------------------------------------------------------------
\* The path safety kernel and the safe I/O primitives
\* ------------------------------------------------------------------------

\* workspace.canonicalize(); an empty workspace path resolves to nothing.
CanonicalWorkspace(f, configured) ==
    IF configured THEN Canonicalize(f, WsNames)
    ELSE [ok |-> FALSE, p |-> <<>>, err |-> "NotFound"]

\* The loop of ensure_within_workspace over the components of `rel`,
\* carrying `current`.  Returns "" or the error.
RECURSIVE EnsureWalk(_, _, _, _)
EnsureWalk(f, cw, current, rel) ==
    IF rel = <<>> THEN ""
    ELSE IF Head(rel).k = "Normal"
    THEN LET next == Append(current, Head(rel).n)
         IN  IF Exists(f, next)
             THEN LET c == Canonicalize(f, next)
                  IN  IF ~IsPrefix(cw, c.p) THEN "symlink_outside_workspace"
                      ELSE EnsureWalk(f, cw, c.p, Tail(rel))
             ELSE EnsureWalk(f, cw, next, Tail(rel))
    ELSE IF Head(rel).k = "ParentDir" THEN "parent_dir_component"
    ELSE "unexpected_component"

\* ensure_within_workspace(dest, workspace): "" or the error.  No side effect.
ensure_within_workspace(f, dest, configured) ==
    LET cw == CanonicalWorkspace(f, configured)
    IN  IF ~cw.ok THEN "cannot_resolve_workspace"
        ELSE IF ~(dest.vol = "ws" /\ IsPrefix(WorkspacePath.comps, dest.comps))
        THEN "not_under_workspace"
        ELSE EnsureWalk(f, cw.p, cw.p,
                        SubSeq(dest.comps, Len(WorkspacePath.comps) + 1, Len(dest.comps)))

Created(ok, f, made, gone, err) ==
    [ok |-> ok, f |-> f, made |-> made, gone |-> gone, err |-> err]

\* safe_create_dir after create_dir_all returned `made`: re-canonicalize and
\* check containment, removing the directory when it escaped.
CheckCreated(dir, configured, made, cw, cd) ==
    IF ~made.ok THEN Created(FALSE, made.f, made.made, {}, "create_dir_failed")
    ELSE IF ~cw.ok THEN Created(FALSE, made.f, made.made, {}, "cannot_resolve_workspace")
    ELSE IF ~cd.ok THEN Created(FALSE, made.f, made.made, {}, "cannot_resolve_created")
    ELSE IF ~IsPrefix(cw.p, cd.p)
    THEN Created(FALSE, RemoveDirAll(made.f, dir).f, made.made,
                 RemoveDirAll(made.f, dir).gone, "created_outside_workspace")
    ELSE Created(TRUE, made.f, made.made, {}, "")

CheckCreatedIn(dir, configured, made) ==
    CheckCreated(dir, configured, made, CanonicalWorkspace(made.f, configured),
                 Canonicalize(made.f, dir))

safe_create_dir_replacing(f, dir, configured) ==
    CheckCreatedIn(dir, configured, CreateDirAll(RemoveDirAll(f, dir).f, dir))

\* safe_create_dir(dir, workspace): create_dir_all, then the check.
safe_create_dir(f, dir, configured) == CheckCreatedIn(dir, configured, CreateDirAll(f, dir))

\* safe_create_parent_dirs(dest, workspace): the same for dest's parent.
safe_create_parent_dirs(f, dest, configured) ==
    IF dest = <<>>
    THEN [ok |-> TRUE, f |-> f, made |-> {}, gone |-> {}, err |-> ""]
    ELSE safe_create_dir(f, Front(dest), configured)

NoWrite(f, e) == [ok |-> FALSE, f |-> f, at |-> <<>>, bytes |-> 0, err |-> e]

\* safe_copy_file, #[cfg(unix)]: the destination is opened with O_NOFOLLOW.
safe_copy_file_unix(f, src, dest) ==
    IF ~src.readable THEN NoWrite(f, "cannot_open_source")
    ELSE LET w == OpenNoFollowAndWrite(f, dest, src.data)
         IN  IF ~w.ok THEN NoWrite(f, "cannot_open_destination")
             ELSE [ok |-> TRUE, f |-> w.f, at |-> w.at, bytes |-> src.bytes, err |-> ""]

\* safe_copy_file, #[cfg(windows)]: link check, std::fs::copy, link check.
safe_copy_file_windows(f, src, dest) ==
    IF IsSymlink(f, dest) THEN NoWrite(f, "destination_is_symlink")
    ELSE IF ~src.readable THEN NoWrite(f, "copy_failed")
    ELSE LET w == OpenFollowAndWrite(f, dest, src.data, MaxLinkHops)
         IN  IF ~w.ok THEN NoWrite(f, "copy_failed")
             ELSE IF IsSymlink(w.f, dest)
             THEN [ok |-> FALSE, f |-> Without(w.f, {ResolveParent(w.f, dest).q}),
                   at |-> w.at, bytes |-> 0, err |-> "destination_became_symlink"]
             ELSE [ok |-> TRUE, f |-> w.f, at |-> w.at, bytes |-> src.bytes, err |-> ""]

safe_copy_file(plat, f, src, dest) ==
    IF plat = "windows" THEN safe_copy_file_windows(f, src, dest)
    ELSE safe_copy_file_unix(f, src, dest)


\* ------------------------------------------------------------------------
\* Inputs: platforms, sources, subpaths and filesystem layouts
\* ------------------------------------------------------------------------

Platforms == {"unix", "windows"}

SrcFile(rel, bytes, readable) ==
    [k |-> "file", rel |-> rel, bytes |-> bytes, readable |-> readable, data |-> Last(rel)]
SrcDir(rel)     == [k |-> "dir",     rel |-> rel, bytes |-> 0, readable |-> TRUE, data |-> ""]
SrcSymlink(rel) == [k |-> "symlink", rel |-> rel, bytes |-> 0, readable |-> TRUE, data |-> ""]
SrcUnreadable   == [k |-> "err",     rel |-> <<>>, bytes |-> 0, readable |-> FALSE, data |-> ""]

\* What WalkDir yields for a source directory, parents before children, the
\* source directory itself first.
TreePlain == << SrcDir(<<>>), SrcFile(<<"x">>, 3, TRUE), SrcDir(<<"y">>),
                SrcFile(<<"y", "z">>, 5, TRUE) >>
TreeEmpty == << SrcDir(<<>>) >>
TreeMixed == << SrcDir(<<>>), SrcFile(<<"x">>, 1, TRUE), SrcSymlink(<<"l">>),
                SrcUnreadable, SrcDir(<<"e">>), SrcFile(<<"u">>, 2, FALSE) >>

\* A source: what source.exists/is_file/is_dir and file_name answer, and for
\* a directory what the walk yields.  name = "" is a path that ends in "..".
Source(kind, name, tree, file) == [kind |-> kind, name |-> name, tree |-> tree, file |-> file]

Sources ==
    { Source("missing", "a", <<>>, SrcUnreadable),
      Source("other",   "a", <<>>, SrcUnreadable),
      Source("file",    "x", <<>>, SrcFile(<<"x">>, 3, TRUE)),
      Source("dir",     "a", TreePlain, SrcUnreadable),
      Source("dir",     "a", TreeEmpty, SrcUnreadable),
      Source("dir",     "a", TreeMixed, SrcUnreadable),
      Source("dir",     "",  TreeEmpty, SrcUnreadable) }

Sub(s) == [some |-> TRUE, s |-> s]
NoSub  == [some |-> FALSE, s |-> <<>>]

Subpaths ==
    { NoSub,
      Sub(<<"s">>),
      Sub(<<".", ".">>),
      Sub(<<"s", "/", ".", ".">>),
      Sub(<<"/", "w", "/", "s">>),
      Sub(<<"/", "o">>),
      Sub(<<"c", ":", "s">>),
      Sub(<<"c", ":", "\\", "w">>),
      Sub(<<"\\", "w", "\\", "s">>) }

Fs(pairs) == [p \in { x[1] : x \in pairs } |-> (CHOOSE x \in pairs : x[1] = p)[2]]

\* What lies outside the workspace.
Outside == { << <<"out">>, DirNode >>, << <<"out", "y">>, DirNode >>,
             << <<"out", "y", "k">>, FileNode("kept") >> }

Layouts ==
    { Fs(Outside),
      Fs(Outside \cup { << <<"w">>, DirNode >> }),
      Fs(Outside \cup { << <<"w">>, DirNode >>, << <<"w", "s">>, LinkNode(<<"out">>) >> }),
      Fs(Outside \cup { << <<"w">>, DirNode >>,
                        << <<"w", "s">>, LinkNode(<<"out", "gone">>) >> }),
      Fs(Outside \cup { << <<"w">>, DirNode >>, << <<"w", "t">>, DirNode >>,
                        << <<"w", "s">>, LinkNode(<<"w", "t">>) >> }),
      Fs(Outside \cup { << <<"w">>, DirNode >>, << <<"w", "a">>, DirNode >>,
                        << <<"w", "a", "x">>, FileNode("old") >>,
                        << <<"w", "a", "y">>, DirNode >>,
                        << <<"w", "a", "q">>, FileNode("other") >> }),
      Fs(Outside \cup { << <<"w">>, DirNode >>, << <<"w", "a">>, DirNode >>,
                        << <<"w", "a", "y">>, LinkNode(<<"out">>) >> }),
      Fs(Outside \cup { << <<"w">>, DirNode >>, << <<"w", "a">>, DirNode >>,
                        << <<"w", "a", "x">>, LinkNode(<<"out", "f">>) >> }),
      Fs(Outside \cup { << <<"w">>, DirNode >>,
                        << <<"w", "x">>, LinkNode(<<"out", "f">>) >> }) }

\* Where the adversary's links point.
AdvTargets == { <<"out">> }

\* ------------------------------------------------------------------------
\* State
\* ------------------------------------------------------------------------

VARIABLES
    platform,       \* the build: "unix" or "windows"
    wsConfigured,   \* WorkspaceState.workspace_path is not empty
    source,         \* the source_path argument
    subpath,        \* the dest_subpath argument
    fs,             \* the filesystem
    fs0,            \* the filesystem when import_folder was called
    swaps,          \* swaps the adversary has made
    pc,             \* where the import is
    entries,        \* do_import: entries
    dirEntries,     \* do_import: dir_entries
    totalFiles,     \* do_import: total_files
    fileIdx,        \* position of `for .. in &entries`
    dirIdx,         \* position of `for rel_dir in &dir_entries`
    filesCopied,    \* do_import: files_copied
    filesProcessed, \* do_import: files_processed
    bytesCopied,    \* do_import: bytes_copied
    errors,         \* do_import: errors
    events,         \* the "folder-import-progress" events emitted, in order
    result,         \* what import_folder returned
    writes,         \* every change the importer made to the filesystem
    clock,          \* the system clock: milliseconds since the epoch
    issued,         \* the import ids generated by this process, in order
    backend,        \* the VM backend of the build: "linux", "macos" or "windows"
    vm,             \* the backend's struct (QemuVM, MacOSVM or WslVM)
    procs,          \* the child processes spawned by the backend; a pid is an index
    distro,         \* the WSL distro: "absent", "installed" or "running"
    vmRet,          \* what the last call on the backend returned
    health,         \* the frame of the last wait_for_health call
    env,            \* what the supervisor finds: environment variables and resources
    tpc,            \* where the supervisor's threads are, and whether the process is up
    sup,            \* DesktopServices: children, sandbox_vm, data_dir
    locks,          \* the thread holding each mutex of DesktopServices across steps
    pidFile,        \* the PID file: whether it exists, its lines, who is writing it
    sigs,           \* the signals the supervisor sent, in order
    img             \* stage_image: its source, its destination, the writes it made

\* The state of the importer, of the import ids and of the VM backend.
importVars == << platform, wsConfigured, source, subpath, fs, fs0, swaps, pc, entries,
                 dirEntries, totalFiles, fileIdx, dirIdx, filesCopied, filesProcessed,
                 bytesCopied, errors, events, result, writes >>
idVars == << clock, issued >>
vmVars == << backend, vm, procs, distro, vmRet, health >>

supVars == << env, tpc, sup, locks, pidFile, sigs >>
imgVars == << img >>
restVars == << supVars, imgVars >>

\* What an import leaves alone.
others == << idVars, vmVars, restVars >>

vars == << importVars, idVars, vmVars, restVars >>

inputs   == << platform, wsConfigured, source, subpath, fs0 >>
scanned  == << entries, dirEntries, totalFiles >>
counters == << filesCopied, filesProcessed, bytesCopied >>

Progress(phase, processed, total, cur) ==
    [phase |-> phase, processed |-> processed, total |-> total, cur |-> cur]

\* emit_error
emit_error(message) == Progress("error", 0, 0, message)

Pending == [ok |-> FALSE, err |-> "pending", files_copied |-> 0, bytes_copied |-> 0,
            dest |-> <<>>, errors |-> <<>>]

Err(e) == [ok |-> FALSE, err |-> e, files_copied |-> 0, bytes_copied |-> 0,
           dest |-> <<>>, errors |-> <<>>]

Ok(copied, bytes, dest, errs) ==
    [ok |-> TRUE, err |-> "", files_copied |-> copied, bytes_copied |-> bytes,
     dest |-> dest, errors |-> errs]

\* --- the VM backends: their state ----------------------------------------

Backends == {"linux", "macos", "windows"}

\* `None` of an Option<Child>, and of the Option<String> of sandbox_url().
NoProcess == 0
NoUrl == 0

\* VMConfig::new: sandbox_port
DefaultPort == 8080
OtherPort == 9090

NoConfig == [some |-> FALSE, sandbox_port |-> DefaultPort, boot |-> FALSE]

\* A VMConfig: its port, and whether kernel_path and initrd_path are given.
VMConfig(port, boot) == [some |-> TRUE, sandbox_port |-> port, boot |-> boot]

VMConfigs == { VMConfig(port, boot) : port \in {DefaultPort, OtherPort}, boot \in BOOLEAN }

\* QemuVM::new
QemuVM_new ==
    [qemu_process |-> NoProcess, virtiofsd_process |-> NoProcess, config |-> NoConfig,
     running |-> FALSE, sandbox_url |-> DefaultPort, virtiofs_socket |-> FALSE]

\* MacOSVM::new
MacOSVM_new ==
    [process |-> NoProcess, config |-> NoConfig, running |-> FALSE,
     sandbox_url |-> DefaultPort, using_native_vz |-> FALSE]

\* WslVM::new
WslVM_new ==
    [process |-> NoProcess, config |-> NoConfig, running |-> FALSE,
     sandbox_url |-> DefaultPort]

\* create_platform_vm
create_platform_vm(b) ==
    IF b = "linux" THEN QemuVM_new
    ELSE IF b = "macos" THEN MacOSVM_new
    ELSE WslVM_new

\* No call was made on the backend yet; no wait_for_health is in progress.
NoCall == [n |-> 0, call |-> "", res |-> "", prev |-> ""]
NoHealth == [pc |-> "idle", timeout |-> 0, elapsed |-> 0, delay |-> 0, answered |-> FALSE,
             ret |-> <<>>]

\* No import id was generated yet.
IdsAtRest ==
    /\ clock = 0
    /\ issued = <<>>

\* The backend as create_platform_vm returns it.
VmAtRest ==
    /\ backend = "linux"
    /\ vm = create_platform_vm("linux")
    /\ procs = <<>>
    /\ distro = "absent"
    /\ vmRet = NoCall
    /\ health = NoHealth

\* DesktopServices::new, before main has done anything: no child, no VM,
\* no data_dir; the interrupt handler is armed and no worker exists.
DesktopServices_new == [children |-> <<>>, sandbox_vm |-> FALSE, data_dir |-> FALSE]
NoEnv == [autostart |-> "unset", resources |-> FALSE, dataDir |-> FALSE,
          frontend |-> FALSE, image |-> FALSE]
NoThreads == [main |-> "start", handler |-> "armed", worker |-> "none", proc |-> "up",
              i |-> 1, pid |-> NoProcess, vmpid |-> NoProcess, exits |-> 0, done |-> 0,
              wres |-> "", tries |-> 0]
NoLocks == [children |-> "", data_dir |-> ""]
NoPidFile == [exists |-> FALSE, pids |-> <<>>, busy |-> {}]

\* A file that does not exist, and stage_image not called yet.
NoFile == [exists |-> FALSE, mtime |-> 0, len |-> 0]
NoImg == [gz |-> FALSE, src |-> NoFile, dest |-> NoFile, writes |-> 0, ret |-> "",
          staged |-> FALSE, n |-> 0]

\* The supervisor and the image staging when they are not looked at.
RestAtRest ==
    /\ env = NoEnv
    /\ tpc = NoThreads
    /\ sup = DesktopServices_new
    /\ locks = NoLocks
    /\ pidFile = NoPidFile
    /\ sigs = <<>>
    /\ img = NoImg

\* The import ids and the backend when only an import is looked at.
OthersAtRest == IdsAtRest /\ VmAtRest /\ RestAtRest

Init ==
    /\ platform \in Platforms
    /\ wsConfigured \in BOOLEAN
    /\ source \in Sources
    /\ subpath \in Subpaths
    /\ fs \in Layouts
    /\ fs0 = fs
    /\ swaps = 0
    /\ pc = "idle"
    /\ entries = <<>>
    /\ dirEntries = <<>>
    /\ totalFiles = 0
    /\ fileIdx = 1
    /\ dirIdx = 1
    /\ filesCopied = 0
    /\ filesProcessed = 0
    /\ bytesCopied = 0
    /\ errors = <<>>
    /\ events = <<>>
    /\ result = Pending
    /\ writes = {}
    /\ OthersAtRest


\* ------------------------------------------------------------------------
\* import_folder and do_import
\* ------------------------------------------------------------------------

\* PathBuf::display of a logical path, as the names below the root.
Phys(path) == CompNames(path.comps)

\* do_import: dest_base, dest (single file) and dest_root (directory).
DestBase ==
    IF subpath.some THEN JoinString(WorkspacePath, subpath.s, platform) ELSE WorkspacePath
FileDest == JoinName(DestBase, source.name)
DestRoot == JoinName(DestBase, source.name)

\* The changes one call made, added to the importer's record.
Changes(made, gone, written) ==
    { [op |-> "mkdir", at |-> q] : q \in made }
    \cup { [op |-> "remove", at |-> q] : q \in gone }
    \cup { [op |-> "write", at |-> q] : q \in written }

\* A mutant of PreconditionError: the source is not checked to exist.
PreconditionErrorNoSourceCheck(configured, f, src, sub, plat) ==
    IF ~configured THEN "workspace_not_configured"
    ELSE IF ~Exists(f, WsNames) THEN "workspace_missing"
    ELSE IF sub.some /\ ~validate_subpath(sub.s, plat).ok
    THEN validate_subpath(sub.s, plat).err
    ELSE ""

\* import_folder's checks before anything is spawned: "" or the hard error.
PreconditionError(configured, f, src, sub, plat) ==
    IF ~configured THEN "workspace_not_configured"
    ELSE IF ~Exists(f, WsNames) THEN "workspace_missing"
    ELSE IF src.kind = "missing" THEN "source_not_found"
    ELSE IF sub.some /\ ~validate_subpath(sub.s, plat).ok
    THEN validate_subpath(sub.s, plat).err
    ELSE ""

ImportFolder ==
    /\ pc = "idle"
    /\ LET e == PreconditionError(wsConfigured, fs, source, subpath, platform)
       IN  IF e # ""
           THEN pc' = "returned" /\ result' = Err(e)
           ELSE pc' = "do_import" /\ UNCHANGED result
    /\ UNCHANGED << inputs, others, fs, swaps, scanned, fileIdx, dirIdx, counters, errors,
                    events, writes >>

\* do_import up to the choice between the single-file and the directory path.
DoImport ==
    /\ pc = "do_import"
    /\ LET v == IF subpath.some THEN validate_subpath(subpath.s, platform)
                ELSE [ok |-> TRUE, err |-> ""]
       IN  IF ~v.ok
           THEN /\ events' = Append(events, emit_error(v.err))
                /\ result' = Err(v.err)
                /\ pc' = "returned"
           ELSE IF source.kind = "file"
           THEN IF source.name = ""
                THEN pc' = "returned" /\ result' = Err("no_file_name") /\ UNCHANGED events
                ELSE pc' = "file_ensure" /\ UNCHANGED << result, events >>
           ELSE IF source.kind # "dir"
           THEN /\ events' = Append(events, emit_error("not_file_or_dir"))
                /\ result' = Err("not_file_or_dir")
                /\ pc' = "returned"
           ELSE IF source.name = ""
           THEN pc' = "returned" /\ result' = Err("no_folder_name") /\ UNCHANGED events
           ELSE pc' = "root_ensure" /\ UNCHANGED << result, events >>
    /\ UNCHANGED << inputs, others, fs, swaps, scanned, fileIdx, dirIdx, counters, errors, writes >>

\* A mutant of HardError: the error event is not emitted.
HardErrorSilent(e) ==
    /\ events' = events
    /\ result' = Err(e)
    /\ pc' = "returned"

\* A hard error of do_import: the error event, then Err.
HardError(e) ==
    /\ events' = Append(events, emit_error(e))
    /\ result' = Err(e)
    /\ pc' = "returned"

\* --- single file --------------------------------------------------------

FileEnsure ==
    /\ pc = "file_ensure"
    /\ LET e == ensure_within_workspace(fs, FileDest, wsConfigured)
       IN  IF e # "" THEN HardError(e)
           ELSE pc' = "file_parents" /\ UNCHANGED << result, events >>
    /\ UNCHANGED << inputs, others, fs, swaps, scanned, fileIdx, dirIdx, counters, errors, writes >>

FileParents ==
    /\ pc = "file_parents"
    /\ LET r == safe_create_parent_dirs(fs, Phys(FileDest), wsConfigured)
       IN  /\ fs' = r.f
           /\ writes' = writes \cup Changes(r.made, r.gone, {})
           /\ IF ~r.ok THEN HardError(r.err)
              ELSE pc' = "file_copy" /\ UNCHANGED << result, events >>
    /\ UNCHANGED << inputs, others, swaps, scanned, fileIdx, dirIdx, counters, errors >>

FileCopy ==
    /\ pc = "file_copy"
    /\ LET r == safe_copy_file(platform, fs, source.file, Phys(FileDest))
       IN  /\ fs' = r.f
           /\ writes' = writes \cup Changes({}, {}, IF r.at = <<>> THEN {} ELSE {r.at})
           /\ IF ~r.ok THEN HardError(r.err)
              ELSE /\ events' = Append(events, Progress("done", 1, 1, source.name))
                   /\ result' = Ok(1, r.bytes, Phys(FileDest), <<>>)
                   /\ pc' = "returned"
    /\ UNCHANGED << inputs, others, swaps, scanned, fileIdx, dirIdx, counters, errors >>

\* --- directory: destination root ----------------------------------------

RootEnsure ==
    /\ pc = "root_ensure"
    /\ LET e == ensure_within_workspace(fs, DestRoot, wsConfigured)
       IN  IF e # "" THEN HardError(e)
           ELSE pc' = "root_create" /\ UNCHANGED << result, events >>
    /\ UNCHANGED << inputs, others, fs, swaps, scanned, fileIdx, dirIdx, counters, errors, writes >>

RootCreate ==
    /\ pc = "root_create"
    /\ LET r == safe_create_dir(fs, Phys(DestRoot), wsConfigured)
       IN  /\ fs' = r.f
           /\ writes' = writes \cup Changes(r.made, r.gone, {})
           /\ IF ~r.ok THEN HardError(r.err)
              ELSE pc' = "scan" /\ UNCHANGED << result, events >>
    /\ UNCHANGED << inputs, others, swaps, scanned, fileIdx, dirIdx, counters, errors >>

\* --- directory: scan ----------------------------------------------------

\* A mutant of ScanEntry: subdirectories are counted in total_files too.
ScanEntryCountingDirs(e, acc) ==
    IF e.k = "file"
    THEN [acc EXCEPT !.entries = Append(@, e), !.total_files = @ + 1]
    ELSE IF e.k = "dir" /\ e.rel # <<>>
    THEN [acc EXCEPT !.dir_entries = Append(@, e.rel), !.total_files = @ + 1]
    ELSE acc

\* A mutant of ScanEntry: the source directory itself is counted as a file.
ScanEntryCountingRoot(e, acc) ==
    IF e.k = "file"
    THEN [acc EXCEPT !.entries = Append(@, e), !.total_files = @ + 1]
    ELSE IF e.k = "dir" /\ e.rel # <<>>
    THEN [acc EXCEPT !.dir_entries = Append(@, e.rel)]
    ELSE IF e.k = "dir"
    THEN [acc EXCEPT !.total_files = @ + 1]
    ELSE acc

\* A mutant of ScanEntry: a symbolic link is taken for the file it points to.
ScanEntryFollowingLinks(e, acc) ==
    IF e.k \in {"file", "symlink"}
    THEN [acc EXCEPT !.entries = Append(@, e), !.total_files = @ + 1]
    ELSE IF e.k = "dir" /\ e.rel # <<>>
    THEN [acc EXCEPT !.dir_entries = Append(@, e.rel)]
    ELSE acc

\* The body of the walk's loop: a file is recorded and counted, a directory
\* other than the source itself is recorded, anything else is skipped.
ScanEntry(e, acc) ==
    IF e.k = "file"
    THEN [acc EXCEPT !.entries = Append(@, e), !.total_files = @ + 1]
    ELSE IF e.k = "dir" /\ e.rel # <<>>
    THEN [acc EXCEPT !.dir_entries = Append(@, e.rel)]
    ELSE acc

\* Nothing scanned yet, and what two consecutive stretches of the walk have
\* recorded and counted together.
ScanNothing == [entries |-> <<>>, dir_entries |-> <<>>, total_files |-> 0]

ScanJoin(a, b) ==
    [entries |-> a.entries \o b.entries,
     dir_entries |-> a.dir_entries \o b.dir_entries,
     total_files |-> a.total_files + b.total_files]

\* The walk of the source tree, in the order WalkDir yields the entries: the
\* loop's body on each entry, the first half of the tree before the second.
RECURSIVE ScanLoop(_, _)
ScanLoop(tree, acc) ==
    IF tree = <<>> THEN acc
    ELSE IF Len(tree) = 1 THEN ScanEntry(tree[1], acc)
    ELSE ScanJoin(ScanLoop(SubSeq(tree, 1, Len(tree) \div 2), acc),
                  ScanLoop(SubSeq(tree, Len(tree) \div 2 + 1, Len(tree)), ScanNothing))

\* Where do_import goes once file `idx - 1` is dealt with.
AfterFile(idx, files, dirs) ==
    IF idx <= Len(files) THEN "copy_ensure"
    ELSE IF dirs # <<>> THEN "dir_check"
    ELSE "finish"

AfterDir(idx, dirs) == IF idx <= Len(dirs) THEN "dir_check" ELSE "finish"

\* A mutant of ScanningEvent: the phase of the copy loop's events.
ScanningEventAsCopying == Progress("copying", 0, 0, "")

ScanningEvent == Progress("scanning", 0, 0, "")

Scan ==
    /\ pc = "scan"
    /\ events' = Append(events, ScanningEvent)
    /\ LET s == ScanLoop(source.tree, ScanNothing)
       IN  /\ entries' = s.entries
           /\ dirEntries' = s.dir_entries
           /\ totalFiles' = s.total_files
           /\ pc' = AfterFile(1, s.entries, s.dir_entries)
    /\ UNCHANGED << inputs, others, fs, swaps, fileIdx, dirIdx, counters, errors, result, writes >>

\* --- directory: copy ----------------------------------------------------

\* A mutant of EmitInterval: progress is never batched.
EmitIntervalAlwaysOne(total) == 1

EmitInterval(total) == IF total > BatchThreshold THEN BatchInterval ELSE 1

CopyingDue(processed, total) ==
    processed % EmitInterval(total) = 0 \/ processed = total

FileError(rel, e) == [kind |-> "file", rel |-> rel, err |-> e]
DirError(rel, e)  == [kind |-> "dir",  rel |-> rel, err |-> e]

\* A mutant of SkipFile: files_processed is not advanced.
SkipFileNoCount(rel, e) ==
    /\ errors' = Append(errors, [kind |-> "file", rel |-> rel, err |-> e])
    /\ filesProcessed' = filesProcessed
    /\ fileIdx' = fileIdx + 1
    /\ pc' = AfterFile(fileIdx + 1, entries, dirEntries)
    /\ UNCHANGED << filesCopied, bytesCopied, events >>

\* A mutant of SkipFile: the error is not pushed.
SkipFileNoError(rel, e) ==
    /\ errors' = errors
    /\ filesProcessed' = filesProcessed + 1
    /\ fileIdx' = fileIdx + 1
    /\ pc' = AfterFile(fileIdx + 1, entries, dirEntries)
    /\ UNCHANGED << filesCopied, bytesCopied, events >>

SkipFileTwice(rel, e) ==
    /\ errors' = Append(errors, FileError(rel, e))
    /\ filesProcessed' = filesProcessed + 2
    /\ fileIdx' = fileIdx + 1
    /\ pc' = AfterFile(fileIdx + 1, entries, dirEntries)
    /\ UNCHANGED << filesCopied, bytesCopied, events >>

\* `errors.push(..); files_processed += 1; continue;`
SkipFile(rel, e) ==
    /\ errors' = Append(errors, FileError(rel, e))
    /\ filesProcessed' = filesProcessed + 1
    /\ fileIdx' = fileIdx + 1
    /\ pc' = AfterFile(fileIdx + 1, entries, dirEntries)
    /\ UNCHANGED << filesCopied, bytesCopied, events >>

CopyEnsure ==
    /\ pc = "copy_ensure"
    /\ LET entry == entries[fileIdx]
           e == ensure_within_workspace(fs, JoinNames(DestRoot, entry.rel), wsConfigured)
       IN  IF e # "" THEN SkipFile(entry.rel, e)
           ELSE pc' = "copy_parents"
                /\ UNCHANGED << errors, counters, fileIdx, events >>
    /\ UNCHANGED << inputs, others, fs, swaps, scanned, dirIdx, result, writes >>

CopyParents ==
    /\ pc = "copy_parents"
    /\ LET entry == entries[fileIdx]
           r == safe_create_parent_dirs(fs, Phys(JoinNames(DestRoot, entry.rel)),
                                        wsConfigured)
       IN  /\ fs' = r.f
           /\ writes' = writes \cup Changes(r.made, r.gone, {})
           /\ IF ~r.ok THEN SkipFile(entry.rel, r.err)
              ELSE pc' = "copy_file"
                   /\ UNCHANGED << errors, counters, fileIdx, events >>
    /\ UNCHANGED << inputs, others, swaps, scanned, dirIdx, result >>

CopyFile ==
    /\ pc = "copy_file"
    /\ LET entry == entries[fileIdx]
           r == safe_copy_file(platform, fs, entry, Phys(JoinNames(DestRoot, entry.rel)))
       IN  /\ fs' = r.f
           /\ writes' = writes \cup Changes({}, {}, IF r.at = <<>> THEN {} ELSE {r.at})
           /\ IF r.ok
              THEN /\ filesCopied' = filesCopied + 1
                   /\ bytesCopied' = bytesCopied + r.bytes
                   /\ UNCHANGED errors
              ELSE /\ errors' = Append(errors, FileError(entry.rel, r.err))
                   /\ UNCHANGED << filesCopied, bytesCopied >>
           /\ filesProcessed' = filesProcessed + 1
           /\ events' = IF CopyingDue(filesProcessed + 1, totalFiles)
                        THEN Append(events, Progress("copying", filesProcessed + 1,
                                                     totalFiles, entry.rel))
                        ELSE events
    /\ fileIdx' = fileIdx + 1
    /\ pc' = AfterFile(fileIdx + 1, entries, dirEntries)
    /\ UNCHANGED << inputs, others, swaps, scanned, dirIdx, result >>

\* --- directory: empty subdirectories ------------------------------------

DirCheck ==
    /\ pc = "dir_check"
    /\ LET rel == dirEntries[dirIdx]
           dest == JoinNames(DestRoot, rel)
           e == ensure_within_workspace(fs, dest, wsConfigured)
       IN  IF Exists(fs, Phys(dest))
           THEN /\ dirIdx' = dirIdx + 1
                /\ pc' = AfterDir(dirIdx + 1, dirEntries)
                /\ UNCHANGED errors
           ELSE IF e # ""
           THEN /\ errors' = Append(errors, DirError(rel, e))
                /\ dirIdx' = dirIdx + 1
                /\ pc' = AfterDir(dirIdx + 1, dirEntries)
           ELSE pc' = "dir_create" /\ UNCHANGED << errors, dirIdx >>
    /\ UNCHANGED << inputs, others, fs, swaps, scanned, fileIdx, counters, events, result, writes >>

DirCreate ==
    /\ pc = "dir_create"
    /\ LET rel == dirEntries[dirIdx]
           r == safe_create_dir(fs, Phys(JoinNames(DestRoot, rel)), wsConfigured)
       IN  /\ fs' = r.f
           /\ writes' = writes \cup Changes(r.made, r.gone, {})
           /\ errors' = IF r.ok THEN errors ELSE Append(errors, DirError(rel, r.err))
    /\ dirIdx' = dirIdx + 1
    /\ pc' = AfterDir(dirIdx + 1, dirEntries)
    /\ UNCHANGED << inputs, others, swaps, scanned, fileIdx, counters, events, result >>

\* --- directory: done ----------------------------------------------------

\* A mutant of DoneEvent: the counters are not passed on.
DoneEventZeroed(processed, total) == Progress("done", 0, 0, "")

DoneEvent(processed, total) == Progress("done", processed, total, "")

Finish ==
    /\ pc = "finish"
    /\ events' = Append(events, DoneEvent(filesProcessed, totalFiles))
    /\ result' = Ok(filesCopied, bytesCopied, Phys(DestRoot), errors)
    /\ pc' = "returned"
    /\ UNCHANGED << inputs, others, fs, swaps, scanned, fileIdx, dirIdx, counters, errors, writes >>

\* ------------------------------------------------------------------------
\* The adversary: a directory inside the workspace is replaced by a symbolic
\* link to somewhere outside it, at any moment of a running import.
\* ------------------------------------------------------------------------

Swappable(f) ==
    { p \in DOMAIN f : f[p].k = "dir" /\ IsPrefix(WsNames, p) /\ p # WsNames }

AdvSwap ==
    /\ pc \notin {"idle", "returned"}
    /\ swaps < MaxSwaps
    /\ \E p \in Swappable(fs) : \E target \in AdvTargets :
          fs' = Put(Without(fs, Subtree(fs, p)), p, LinkNode(target))
    /\ swaps' = swaps + 1
    /\ UNCHANGED << inputs, others, pc, scanned, fileIdx, dirIdx, counters, errors, events,
                    result, writes >>

Next ==
    \/ ImportFolder
    \/ DoImport
    \/ FileEnsure
    \/ FileParents
    \/ FileCopy
    \/ RootEnsure
    \/ RootCreate
    \/ Scan
    \/ CopyEnsure
    \/ CopyParents
    \/ CopyFile
    \/ DirCheck
    \/ DirCreate
    \/ Finish
    \/ AdvSwap

Spec == Init /\ [][Next]_vars


\* ------------------------------------------------------------------------
\* Properties
\* ------------------------------------------------------------------------

InsideWorkspace(p) == IsPrefix(WsNames, p)

Returned == pc = "returned"

\* import_folder got past its own checks with a source that has a name, so
\* the import has a logical destination (dest for a file, dest_root for a
\* directory).
HasDestination ==
    /\ PreconditionError(wsConfigured, fs0, source, subpath, platform) = ""
    /\ source.kind \in {"file", "dir"}
    /\ source.name # ""

\* Some component of `path` is, in f, a symbolic link that lies inside the
\* workspace and points outside it.
TraversesOutsideLink(f, path) ==
    \E i \in 1..Len(path) :
        LET rp == ResolveParent(f, SubSeq(path, 1, i))
        IN  /\ rp.ok
            /\ rp.q \in DOMAIN f
            /\ f[rp.q].k = "link"
            /\ InsideWorkspace(rp.q)
            /\ ~InsideWorkspace(f[rp.q].to)

\* The errors that report a containment violation.
ContainmentErrors ==
    { "symlink_outside_workspace", "created_outside_workspace", "not_under_workspace",
      "parent_dir_component", "unexpected_component" }

\* What lies outside the workspace in f.
OutsidePart(f) == [p \in { q \in DOMAIN f : ~InsideWorkspace(q) } |-> f[p]]

\* C1: under every interleaving of an import with the adversary's swaps, the
\* importer never creates or writes a file whose real location is outside
\* the canonical workspace root.
C1_NoWriteOutsideWorkspace ==
    \A w \in writes : w.op = "write" => InsideWorkspace(w.at)

\* C2: when a symbolic link that points outside the workspace already exists
\* inside it and the import's logical destination traverses the link, the
\* import fails with a containment error, the importer has created and
\* written nothing, and what lies outside the workspace is as it was.
C2_PreexistingLinkRefused ==
    (Returned /\ HasDestination /\ TraversesOutsideLink(fs0, Phys(DestRoot)))
        => /\ ~result.ok
           /\ result.err \in ContainmentErrors
           /\ writes = {}
           /\ OutsidePart(fs) = OutsidePart(fs0)

\* C3: when an import has completed, every file it created or wrote lies
\* under the canonical workspace.
C3_CompletedImportInsideWorkspace ==
    (Returned /\ result.ok)
        => \A w \in writes : w.op = "write" => InsideWorkspace(w.at)

\* The subpaths C4 is about: a ".." component, an absolute path, or a drive
\* or root prefix.
BadSubpath(s, plat) ==
    \/ HasKind(Components(s, plat), "ParentDir")
    \/ IsAbsolute(s, plat)
    \/ HasKind(Components(s, plat), "Prefix")
    \/ HasKind(Components(s, plat), "RootDir")

\* C4: for a subpath with a ".." component, an absolute path or a drive or
\* root prefix, validate_subpath returns an error, and import_folder called
\* with it returns a hard error having changed nothing.
C4_BadSubpathRejected ==
    (pc # "idle" /\ subpath.some /\ BadSubpath(subpath.s, platform))
        => /\ ~validate_subpath(subpath.s, platform).ok
           /\ Returned => (~result.ok /\ writes = {})

\* Some precondition of import_folder does not hold: the workspace path is
\* empty or names nothing, the source does not exist, or validate_subpath
\* rejects the subpath.
PreconditionViolated ==
    \/ ~wsConfigured
    \/ WsNames \notin DOMAIN fs0
    \/ source.kind = "missing"
    \/ (subpath.some /\ ~validate_subpath(subpath.s, platform).ok)

\* C5: when a precondition is violated, import_folder returns a hard error
\* at once, and nothing in the filesystem was created, changed or removed.
C5_PreconditionHardError ==
    (pc # "idle" /\ PreconditionViolated)
        => /\ Returned
           /\ ~result.ok
           /\ result.err # "pending"
           /\ writes = {}
           /\ fs = fs0

C5_Witness ==
    /\ Returned
    /\ wsConfigured
    /\ WsNames \in DOMAIN fs0
    /\ source.kind = "missing"
    /\ result.err = "source_not_found"


\* The step do_import is about to take for entries[fileIdx] fails.
FileStepFails ==
    \/ /\ pc = "copy_ensure"
       /\ ensure_within_workspace(fs, JoinNames(DestRoot, entries[fileIdx].rel),
                                  wsConfigured) # ""
    \/ /\ pc = "copy_parents"
       /\ ~safe_create_parent_dirs(fs, Phys(JoinNames(DestRoot, entries[fileIdx].rel)),
                                   wsConfigured).ok
    \/ /\ pc = "copy_file"
       /\ ~safe_copy_file(platform, fs, entries[fileIdx],
                          Phys(JoinNames(DestRoot, entries[fileIdx].rel))).ok

ScanningEmitted == \E i \in 1..Len(events) : events[i].phase = "scanning"

\* The step appends one error, attributed to the file `rel`, to errors[].
PushesFileError(rel) ==
    /\ Len(errors') = Len(errors) + 1
    /\ SubSeq(errors', 1, Len(errors)) = errors
    /\ errors'[Len(errors')].kind = "file"
    /\ errors'[Len(errors')].rel = rel

\* C6: in a directory import, when the containment pre-check, the creation of
\* the parent directories or the copy fails for a file, the importer's step
\* appends the failure to errors[], advances the processed counter and goes
\* on to the next scanned file without returning; and a directory import
\* that has scanned returns success having attempted every scanned file.
C6_PerFileFailureNeverAborts ==
    [][ /\ (FileStepFails /\ swaps' = swaps)
            => /\ PushesFileError(entries[fileIdx].rel)
               /\ filesProcessed' = filesProcessed + 1
               /\ fileIdx' = fileIdx + 1
               /\ pc' # "returned"
               /\ result' = Pending
               /\ (fileIdx < Len(entries) => pc' = "copy_ensure")
        /\ (pc' = "returned" /\ ScanningEmitted')
            => /\ result'.ok
               /\ fileIdx' = Len(entries') + 1
               /\ filesProcessed' = Len(entries')
               /\ result'.errors = errors'
      ]_vars

C6_Witness ==
    /\ Returned
    /\ result.ok
    /\ Len(entries) >= 2
    /\ Len(result.errors) >= 1
    /\ result.errors[1].kind = "file"
    /\ result.errors[1].rel = entries[1].rel
    /\ result.files_copied >= 1

\* The number of errors attributable to file copies.
FileErrCount(errs) == Cardinality({ i \in 1..Len(errs) : errs[i].kind = "file" })

\* C7: when an import has terminated with a result, files_copied plus the
\* number of errors attributable to file copies equals the processed count
\* (the counter, and the processed field of the last event).
C7_CopiedPlusErrorsIsProcessed ==
    (Returned /\ result.ok)
        => /\ result.files_copied + FileErrCount(result.errors)
                = events[Len(events)].processed
           /\ source.kind = "dir"
                => filesCopied + FileErrCount(errors) = filesProcessed

C7_Witness ==
    /\ Returned
    /\ result.ok
    /\ result.files_copied >= 1
    /\ FileErrCount(result.errors) >= 1
    /\ FileErrCount(result.errors) < Len(result.errors)

\* C8: the processed field never decreases along the sequence of emitted
\* events, whatever their phases.
C8_ProcessedMonotonic ==
    \A i, j \in 1..Len(events) :
        i < j => events[i].processed <= events[j].processed

C8_Witness ==
    /\ Returned
    /\ Len(events) >= 4
    /\ events[1].phase = "scanning"
    /\ events[Len(events)].processed >= 2

\* The number of regular files in a source tree.
NumRegularFiles(tree) == Cardinality({ i \in 1..Len(tree) : tree[i].k = "file" })

\* C9: in a directory import, once the scan is over total_files is the number
\* of regular files of the source tree and does not change, and every
\* copying event and the done event carry that number as total.
C9_TotalIsScannedFiles ==
    source.kind = "dir"
        => /\ ScanningEmitted
                => /\ totalFiles = NumRegularFiles(source.tree)
                   /\ Len(entries) = totalFiles
           /\ \A i \in 1..Len(events) :
                events[i].phase \in {"copying", "done"}
                    => events[i].total = NumRegularFiles(source.tree)

C9_Witness ==
    /\ Returned
    /\ source.kind = "dir"
    /\ Len(source.tree) > NumRegularFiles(source.tree) + 1
    /\ NumRegularFiles(source.tree) >= 2
    /\ \E i \in 1..Len(events) : events[i].phase = "copying" /\ events[i].total = 2
    /\ events[Len(events)].phase = "done"

CopyPhase == pc \in {"copy_ensure", "copy_parents", "copy_file"}

\* C10: in a directory import the scan is complete before any file is
\* handled, every copying event comes after the scanning event, and the
\* last event emitted is "done" when the import returned success and "error"
\* when it failed, with no event after it; a successful import always
\* emits its "done" event.
C10_ScanThenCopyThenDone ==
    /\ (CopyPhase \/ filesProcessed > 0)
        => /\ events # <<>>
           /\ events[1].phase = "scanning"
           /\ Len(entries) = NumRegularFiles(source.tree)
    /\ \A i \in 1..Len(events) :
        /\ events[i].phase = "copying"
            => \E j \in 1..(i - 1) : events[j].phase = "scanning"
        /\ events[i].phase \in {"done", "error"} => (i = Len(events) /\ Returned)
    /\ (Returned /\ events # <<>>)
        => events[Len(events)].phase = IF result.ok THEN "done" ELSE "error"
    /\ (Returned /\ result.ok) => events # <<>>

C10_Witness ==
    /\ Returned
    /\ result.ok
    /\ Len(events) >= 3
    /\ events[1].phase = "scanning"
    /\ events[2].phase = "copying"
    /\ events[Len(events)].phase = "done"

CopyingEvents == { i \in 1..Len(events) : events[i].phase = "copying" }

\* The files for which a copying event is due: every file when total is at
\* most 1000, every 10th and the last one otherwise.
CopyingExpected(total) ==
    { k \in 1..total : total <= 1000 \/ k % 10 = 0 \/ k = total }

\* C11: when a directory import has returned, a copying event was emitted for
\* every scanned file if total <= 1000, failed files included, and for every
\* 10th processed file and the last one if total > 1000.
C11_CopyingEventPerFile ==
    (Returned /\ result.ok /\ source.kind = "dir")
        => \A k \in CopyingExpected(totalFiles) :
              \E i \in CopyingEvents : events[i].processed = k

\* ------------------------------------------------------------------------
\* Imports of more than 1000 files: the same importer, started on a flat
\* source directory of 1001 or 1010 files, without the adversary
\* ------------------------------------------------------------------------

\* What WalkDir yields for a directory of n files named "1" .. "n"; file
\* `bad` (if any) cannot be opened for reading.
BigTree(n, bad) ==
    << SrcDir(<<>>) >> \o [i \in 1..n |-> SrcFile(<< ToString(i) >>, 1, i # bad)]

BatchSources ==
    { Source("dir", "a", BigTree(BatchThreshold + 1, 0), SrcUnreadable),
      Source("dir", "a", BigTree(BatchThreshold + 1, BatchThreshold + 1), SrcUnreadable),
      Source("dir", "a", BigTree(BatchThreshold + BatchInterval, 0), SrcUnreadable),
      Source("dir", "a", BigTree(BatchThreshold + BatchInterval, BatchInterval),
             SrcUnreadable) }

\* An empty workspace, and one where the destination of file "10" is already
\* a link that leaves the workspace.
BatchLayouts ==
    { Fs(Outside \cup { << <<"w">>, DirNode >> }),
      Fs(Outside \cup { << <<"w">>, DirNode >>, << <<"w", "a">>, DirNode >>,
                        << <<"w", "a", ToString(BatchInterval)>>, LinkNode(<<"out">>) >> }) }

InitBatch ==
    /\ platform = "unix"
    /\ wsConfigured = TRUE
    /\ source \in BatchSources
    /\ subpath = NoSub
    /\ fs \in BatchLayouts
    /\ fs0 = fs
    /\ swaps = MaxSwaps
    /\ pc = "idle"
    /\ entries = <<>>
    /\ dirEntries = <<>>
    /\ totalFiles = 0
    /\ fileIdx = 1
    /\ dirIdx = 1
    /\ filesCopied = 0
    /\ filesProcessed = 0
    /\ bytesCopied = 0
    /\ errors = <<>>
    /\ events = <<>>
    /\ result = Pending
    /\ writes = {}
    /\ OthersAtRest

NextBatch ==
    \/ ImportFolder
    \/ DoImport
    \/ RootEnsure
    \/ RootCreate
    \/ Scan
    \/ CopyEnsure
    \/ CopyParents
    \/ CopyFile
    \/ Finish

SpecBatch == InitBatch /\ [][NextBatch]_vars

CeilDiv(a, b) == (a + b - 1) \div b

\* C12: in a directory import of more than 1000 files, at most
\* ceil(total / 10) + 1 copying events are emitted.
C12_BatchedCopyingEvents ==
    (source.kind = "dir" /\ totalFiles > 1000)
        => Cardinality(CopyingEvents) <= CeilDiv(totalFiles, 10) + 1

\* 19 of 1001 files are processed and one copying event, for the 10th, is out.
C12_Witness ==
    /\ source.kind = "dir"
    /\ totalFiles = 1001
    /\ filesProcessed = 19
    /\ Cardinality(CopyingEvents) = 1
    /\ events[Len(events)].phase = "copying"
    /\ events[Len(events)].processed = 10
    /\ events[Len(events)].total = 1001

EmptyDirImport ==
    /\ Returned
    /\ result.ok
    /\ source.kind = "dir"
    /\ source.tree = TreeEmpty

DoneEvents == { i \in 1..Len(events) : events[i].phase = "done" }

\* C13: a completed import of an empty source directory has emitted no
\* copying event and exactly one done event, with total = 0, returns
\* files_copied = 0 and no errors, has written no file, and (left alone by
\* the adversary) leaves the destination a directory into which it has put
\* nothing: all it made are directories on the way to the destination.
C13_EmptyDirectoryImport ==
    EmptyDirImport
        => /\ CopyingEvents = {}
           /\ Cardinality(DoneEvents) = 1
           /\ events[Len(events)] = Progress("done", 0, 0, "")
           /\ result.files_copied = 0
           /\ result.bytes_copied = 0
           /\ result.errors = <<>>
           /\ \A w \in writes : w.op = "mkdir" /\ InsideWorkspace(w.at)
           /\ swaps = 0
                => /\ IsDir(fs, Phys(DestRoot))
                   /\ DOMAIN fs \ DOMAIN fs0 = { w.at : w \in writes }
                   /\ \A p \in DOMAIN fs0 : fs[p] = fs0[p]

C13_Witness ==
    /\ EmptyDirImport
    /\ swaps = 0
    /\ Phys(DestRoot) \notin DOMAIN fs0
    /\ fs[Phys(DestRoot)] = DirNode
    /\ Subtree(fs, Phys(DestRoot)) = { Phys(DestRoot) }
    /\ Len(events) = 2

\* do_import took the single-file path: import_folder's checks passed and
\* the source is a regular file.
SingleFileImport ==
    /\ source.kind = "file"
    /\ PreconditionError(wsConfigured, fs0, source, subpath, platform) = ""

\* C14: a single-file import emits no scanning and no copying event; when it
\* has returned it has emitted exactly one event, done with processed = 1
\* and total = 1 if it succeeded and error if it failed, whichever step failed.
C14_SingleFileEvents ==
    SingleFileImport
        => /\ \A i \in 1..Len(events) : events[i].phase \in {"done", "error"}
           /\ entries = <<>> /\ totalFiles = 0
           /\ ~Returned => events = <<>>
           /\ Returned
                => /\ Len(events) = 1
                   /\ result.ok
                        => /\ events[1] = Progress("done", 1, 1, source.name)
                           /\ result.files_copied = 1
                   /\ ~result.ok
                        => /\ events[1].phase = "error"
                           /\ events[1].cur = result.err

C14_Witness ==
    /\ SingleFileImport
    /\ Returned
    /\ ~result.ok
    /\ result.err \in {"cannot_open_destination", "destination_is_symlink"}
    /\ events = << emit_error(result.err) >>

\* The relative paths of the symbolic links of a source tree.
SourceLinks(tree) == { tree[i].rel : i \in { j \in 1..Len(tree) : tree[j].k = "symlink" } }

IsSuffix(a, b) == Len(a) <= Len(b) /\ SubSeq(b, Len(b) - Len(a) + 1, Len(b)) = a

\* C15: in a directory import no symbolic link of the source tree is among
\* the scanned entries or counted in total, nothing is written for it, and
\* nothing exists at its place under the destination.
C15_SourceSymlinksSkipped ==
    source.kind = "dir"
        => \A rel \in SourceLinks(source.tree) :
              /\ \A i \in 1..Len(entries) : entries[i].rel # rel
              /\ \A i \in 1..Len(dirEntries) : dirEntries[i] # rel
              /\ ScanningEmitted => totalFiles = NumRegularFiles(source.tree)
              /\ \A w \in writes : ~IsSuffix(rel, w.at)
              /\ ~Exists(fs, Phys(JoinNames(DestRoot, rel)))
              /\ \A p \in DOMAIN fs : IsSuffix(rel, p) => p \in DOMAIN fs0

C15_Witness ==
    /\ Returned
    /\ result.ok
    /\ source.kind = "dir"
    /\ SourceLinks(source.tree) = { <<"l">> }
    /\ swaps = 0
    /\ result.files_copied = 1
    /\ Exists(fs, Phys(JoinNames(DestRoot, <<"x">>)))
    /\ ~Exists(fs, Phys(JoinNames(DestRoot, <<"l">>)))

\* C16: when import_folder has returned a hard error, it has emitted an
\* error event, and that event is the last one.
C16_HardErrorEmitsErrorEvent ==
    (Returned /\ ~result.ok)
        => /\ events # <<>>
           /\ events[Len(events)].phase = "error"

\* ------------------------------------------------------------------------
\* Import ids: import_folder invocations of one process, and the clock
\* ------------------------------------------------------------------------

MaxClock == 5
MaxImports == 3

\* std::process::id()
ProcessId == 4242

\* No import is running.
ImporterAtRest ==
    /\ platform = "unix"
    /\ wsConfigured = TRUE
    /\ source = Source("dir", "a", TreeEmpty, SrcUnreadable)
    /\ subpath = NoSub
    /\ fs = Fs(Outside \cup { << <<"w">>, DirNode >> })
    /\ fs0 = fs
    /\ swaps = 0
    /\ pc = "idle"
    /\ entries = <<>>
    /\ dirEntries = <<>>
    /\ totalFiles = 0
    /\ fileIdx = 1
    /\ dirIdx = 1
    /\ filesCopied = 0
    /\ filesProcessed = 0
    /\ bytesCopied = 0
    /\ errors = <<>>
    /\ events = <<>>
    /\ result = Pending
    /\ writes = {}

\* format!("{}-{}", std::process::id(), millis since the epoch)
import_id(pid, millis) == ToString(pid) \o "-" \o ToString(millis)

\* The system clock moves on by a millisecond.
Tick ==
    /\ clock < MaxClock
    /\ clock' = clock + 1
    /\ UNCHANGED << issued, importVars, vmVars, restVars >>

\* An invocation of import_folder generates its import id.
GenerateImportId ==
    /\ Len(issued) < MaxImports
    /\ issued' = Append(issued, import_id(ProcessId, clock))
    /\ UNCHANGED << clock, importVars, vmVars, restVars >>

InitIds == ImporterAtRest /\ IdsAtRest /\ VmAtRest /\ RestAtRest

NextIds ==
    \/ Tick
    \/ GenerateImportId

SpecIds == InitIds /\ [][NextIds]_vars

\* C17: no two import_folder invocations of a process obtain the same
\* import id.
C17_ImportIdsUnique ==
    \A i, j \in 1..Len(issued) : i # j => issued[i] # issued[j]

\* ------------------------------------------------------------------------
\* The VM backends: start, stop, wait_for_health
\* ------------------------------------------------------------------------

MaxSpawns == 3

\* Command::spawn: the child is running and gets the next pid.
Spawn(ps, kind) == Append(ps, [kind |-> kind, state |-> "running"])

\* `let _ = child.kill(); let _ = child.wait();` on an Option<Child>
KillWait(ps, pid) ==
    IF pid = NoProcess THEN ps ELSE [ps EXCEPT ![pid].state = "reaped"]

\* What a call leaves behind: the struct, the processes, the distro, and
\* what it returned.
Outcome(self, ps, d, res) == [self |-> self, procs |-> ps, distro |-> d, res |-> res]

\* What a start finds on the host: the image file, the binaries, the
\* environment, and whether its spawns succeed (`aux` is the spawn of
\* virtiofsd or of the VZ helper, `spawn` the one of QEMU or of wsl).
HostFacts ==
    [image : BOOLEAN, qemu : BOOLEAN, virtiofsd : BOOLEAN, vz : BOOLEAN, helper : BOOLEAN,
     wsl : BOOLEAN, appdata : BOOLEAN, import_ok : BOOLEAN, spawn : BOOLEAN, aux : BOOLEAN]

\* The facts a backend looks at; the others are held FALSE.
Hosts(b) ==
    { h \in HostFacts :
        IF b = "linux" THEN ~h.vz /\ ~h.helper /\ ~h.wsl /\ ~h.appdata /\ ~h.import_ok
        ELSE IF b = "macos" THEN ~h.virtiofsd /\ ~h.wsl /\ ~h.appdata /\ ~h.import_ok
        ELSE ~h.qemu /\ ~h.virtiofsd /\ ~h.vz /\ ~h.helper /\ ~h.aux }

AlreadyRunningNever(self) == FALSE

\* `if self.running` at the head of every start
AlreadyRunning(self) == self.running

\* QemuVM::start_virtiofsd
start_virtiofsd(self, host, ps, d) ==
    IF ~host.aux THEN Outcome(self, ps, d, "MountFailed")
    ELSE Outcome([self EXCEPT !.virtiofsd_process = Len(ps) + 1, !.virtiofs_socket = TRUE],
                 Spawn(ps, "virtiofsd"), d, "Ok")

\* QemuVM::start from the spawn of QEMU on
spawn_qemu(self, config, host, ps, d) ==
    IF ~host.spawn THEN Outcome(self, ps, d, "StartFailed")
    ELSE Outcome([self EXCEPT !.qemu_process = Len(ps) + 1, !.config = config,
                              !.running = TRUE, !.sandbox_url = config.sandbox_port],
                 Spawn(ps, "qemu"), d, "Ok")

\* QemuVM::start
QemuVM_start(self, config, host, ps, d) ==
    IF AlreadyRunning(self) THEN Outcome(self, ps, d, "StartFailed")
    ELSE IF ~host.qemu THEN Outcome(self, ps, d, "UnsupportedPlatform")
    ELSE IF ~host.image THEN Outcome(self, ps, d, "ImageNotFound")
    ELSE IF host.virtiofsd
         THEN spawn_qemu(start_virtiofsd(self, host, ps, d).self, config, host,
                         start_virtiofsd(self, host, ps, d).procs, d)
         ELSE spawn_qemu(self, config, host, ps, d)

\* QemuVM::stop
QemuVM_stop(self, ps, d) ==
    Outcome([self EXCEPT !.qemu_process = NoProcess, !.virtiofsd_process = NoProcess,
                         !.virtiofs_socket = FALSE, !.running = FALSE],
            KillWait(KillWait(ps, self.qemu_process), self.virtiofsd_process), d, "Ok")

\* MacOSVM::start_native
start_native(self, config, host, ps, d) ==
    IF ~host.helper THEN Outcome(self, ps, d, "StartFailed")
    ELSE IF ~config.boot THEN Outcome(self, ps, d, "StartFailed")
    ELSE IF ~host.aux THEN Outcome(self, ps, d, "StartFailed")
    ELSE Outcome([self EXCEPT !.process = Len(ps) + 1, !.config = config, !.running = TRUE,
                              !.using_native_vz = TRUE,
                              !.sandbox_url = config.sandbox_port],
                 Spawn(ps, "vz"), d, "Ok")

\* MacOSVM::start_qemu
start_qemu(self, config, host, ps, d) ==
    IF ~host.spawn THEN Outcome(self, ps, d, "StartFailed")
    ELSE Outcome([self EXCEPT !.process = Len(ps) + 1, !.config = config, !.running = TRUE,
                              !.using_native_vz = FALSE,
                              !.sandbox_url = config.sandbox_port],
                 Spawn(ps, "qemu"), d, "Ok")

\* MacOSVM::start
MacOSVM_start(self, config, host, ps, d) ==
    IF AlreadyRunning(self) THEN Outcome(self, ps, d, "StartFailed")
    ELSE IF ~host.image THEN Outcome(self, ps, d, "ImageNotFound")
    ELSE IF host.vz /\ start_native(self, config, host, ps, d).res = "Ok"
         THEN start_native(self, config, host, ps, d)
    ELSE IF host.qemu THEN start_qemu(self, config, host, ps, d)
    ELSE Outcome(self, ps, d, "UnsupportedPlatform")

MacOSVM_stopFailingWhenStopped(self, ps, d) ==
    IF self.process = NoProcess THEN Outcome(self, ps, d, "StopFailed")
    ELSE Outcome([self EXCEPT !.process = NoProcess, !.running = FALSE],
                 KillWait(ps, self.process), d, "Ok")

\* MacOSVM::stop
MacOSVM_stop(self, ps, d) ==
    Outcome([self EXCEPT !.process = NoProcess, !.running = FALSE],
            KillWait(ps, self.process), d, "Ok")

\* WslVM::start_sandbox: `wsl -d orcabot-sandbox -- ...` brings the distro up
start_sandbox(self, config, host, ps, d) ==
    IF ~host.spawn THEN Outcome(self, ps, d, "StartFailed")
    ELSE Outcome([self EXCEPT !.process = Len(ps) + 1, !.config = config, !.running = TRUE,
                              !.sandbox_url = config.sandbox_port],
                 Spawn(ps, "wsl"), "running", "Ok")

\* WslVM::start
WslVM_start(self, config, host, ps, d) ==
    IF AlreadyRunning(self) THEN Outcome(self, ps, d, "StartFailed")
    ELSE IF ~host.wsl THEN Outcome(self, ps, d, "UnsupportedPlatform")
    ELSE IF d = "absent"
         THEN IF ~host.image THEN Outcome(self, ps, d, "ImageNotFound")
              ELSE IF ~host.appdata THEN Outcome(self, ps, d, "StartFailed")
              ELSE IF ~host.import_ok THEN Outcome(self, ps, d, "StartFailed")
              ELSE start_sandbox(self, config, host, ps, "installed")
         ELSE start_sandbox(self, config, host, ps, d)

\* WslVM::stop: `wsl --terminate orcabot-sandbox` runs on every call
WslVM_stop(self, ps, d) ==
    Outcome([self EXCEPT !.process = NoProcess, !.running = FALSE],
            KillWait(ps, self.process), IF d = "running" THEN "installed" ELSE d, "Ok")

\* VirtualMachine::start of the build's backend
start(b, self, config, host, ps, d) ==
    IF b = "linux" THEN QemuVM_start(self, config, host, ps, d)
    ELSE IF b = "macos" THEN MacOSVM_start(self, config, host, ps, d)
    ELSE WslVM_start(self, config, host, ps, d)

\* VirtualMachine::stop of the build's backend
stop(b, self, ps, d) ==
    IF b = "linux" THEN QemuVM_stop(self, ps, d)
    ELSE IF b = "macos" THEN MacOSVM_stop(self, ps, d)
    ELSE WslVM_stop(self, ps, d)

\* VirtualMachine::sandbox_url
sandbox_url(self) == IF self.running THEN self.sandbox_url ELSE NoUrl

\* The Option<Child> fields of the backend's struct that are Some.
Handles(b, self) ==
    IF b = "linux" THEN {self.qemu_process, self.virtiofsd_process} \ {NoProcess}
    ELSE {self.process} \ {NoProcess}

\* A call on the backend returned `res`.
CallReturned(call, res) ==
    [n |-> 1 - vmRet.n, call |-> call, res |-> res, prev |-> vmRet.call]

\* Some caller calls start.
Start ==
    /\ Len(procs) < MaxSpawns
    /\ \E config \in VMConfigs, host \in Hosts(backend) :
          /\ vm' = start(backend, vm, config, host, procs, distro).self
          /\ procs' = start(backend, vm, config, host, procs, distro).procs
          /\ distro' = start(backend, vm, config, host, procs, distro).distro
          /\ vmRet' = CallReturned("start", start(backend, vm, config, host, procs, distro).res)
    /\ UNCHANGED << backend, health, importVars, idVars, restVars >>

\* Some caller calls stop.
Stop ==
    /\ vm' = stop(backend, vm, procs, distro).self
    /\ procs' = stop(backend, vm, procs, distro).procs
    /\ distro' = stop(backend, vm, procs, distro).distro
    /\ vmRet' = CallReturned("stop", stop(backend, vm, procs, distro).res)
    /\ UNCHANGED << backend, health, importVars, idVars, restVars >>

\* A child process exits on its own.
ChildExit ==
    /\ \E p \in 1..Len(procs) :
          /\ procs[p].state = "running"
          /\ procs' = [procs EXCEPT ![p].state = "exited"]
    /\ UNCHANGED << backend, vm, distro, vmRet, health, importVars, idVars, restVars >>

InitVm ==
    /\ ImporterAtRest
    /\ IdsAtRest
    /\ backend \in Backends
    /\ vm = create_platform_vm(backend)
    /\ procs = <<>>
    /\ distro \in (IF backend = "windows" THEN {"absent", "installed"} ELSE {"absent"})
    /\ vmRet = NoCall
    /\ health = NoHealth
    /\ RestAtRest

NextVm ==
    \/ Start
    \/ Stop
    \/ ChildExit

SpecVm == InitVm /\ [][NextVm]_vars

\* wait_for_health: the timeouts callers pass, the time a connection
\* attempt takes, the sleep between attempts and the cap of macOS's backoff
Timeouts == {100, 1200, 8000}
ConnectMs == {0, 1}
RetryInterval == 500
MaxDelay == 5000

\* The sleep after the next failed attempt.
NextDelay(b, delay) ==
    IF b = "macos" THEN (IF delay * 2 < MaxDelay THEN delay * 2 ELSE MaxDelay)
    ELSE RetryInterval

\* wait_for_health is called: `let start = Instant::now()`
HealthBegin ==
    /\ health.pc = "idle"
    /\ \E timeout \in Timeouts :
          health' = [pc |-> "check", timeout |-> timeout, elapsed |-> 0,
                     delay |-> RetryInterval, answered |-> FALSE, ret |-> <<>>]
    /\ UNCHANGED << backend, vm, procs, distro, vmRet, importVars, idVars, restVars >>

\* `while start.elapsed() < timeout`, and the return after the loop
HealthCheck ==
    /\ health.pc = "check"
    /\ IF health.elapsed < health.timeout
       THEN /\ health' = [health EXCEPT !.pc = "connect"]
            /\ UNCHANGED vmRet
       ELSE /\ health' = [health EXCEPT !.pc = "idle",
                                        !.ret = <<"HealthTimeout", health.timeout>>]
            /\ vmRet' = CallReturned("wait_for_health", "HealthTimeout")
    /\ UNCHANGED << backend, vm, procs, distro, importVars, idVars, restVars >>

\* TcpStream::connect and the request: refused, answered with a healthy
\* response, or answered with something else
HealthConnect ==
    /\ health.pc = "connect"
    /\ \E answer \in {"refused", "healthy", "other"}, ms \in ConnectMs :
          IF answer = "healthy"
          THEN /\ health' = [health EXCEPT !.pc = "idle", !.answered = TRUE,
                                           !.elapsed = @ + ms, !.ret = <<"Ok">>]
               /\ vmRet' = CallReturned("wait_for_health", "Ok")
          ELSE /\ health' = [health EXCEPT !.pc = "sleep", !.elapsed = @ + ms,
                                           !.answered = @ \/ answer = "other"]
               /\ UNCHANGED vmRet
    /\ UNCHANGED << backend, vm, procs, distro, importVars, idVars, restVars >>

\* std::thread::sleep between attempts
HealthSleep ==
    /\ health.pc = "sleep"
    /\ health' = [health EXCEPT !.pc = "check", !.elapsed = @ + health.delay,
                                !.delay = NextDelay(backend, @)]
    /\ UNCHANGED << backend, vm, procs, distro, vmRet, importVars, idVars, restVars >>

\* wait_for_health reads nothing of the backend but the configured port,
\* so it is followed on a backend as constructed.
InitHealth ==
    /\ ImporterAtRest
    /\ IdsAtRest
    /\ backend \in Backends
    /\ vm = create_platform_vm(backend)
    /\ procs = <<>>
    /\ distro = "absent"
    /\ vmRet = NoCall
    /\ health = NoHealth
    /\ RestAtRest

NextHealth ==
    \/ HealthBegin
    \/ HealthCheck
    \/ HealthConnect
    \/ HealthSleep

SpecHealth == InitHealth /\ [][NextHealth]_vars

\* C18: on every backend, start on a VM that is already running returns
\* StartFailed, spawns no process, and leaves the process handles, the
\* stored config, the sandbox URL and the running flag as they were.
C18_StartOnRunningRefused ==
    [][ (vmRet'.n # vmRet.n /\ vmRet'.call = "start" /\ vm.running)
            => /\ vmRet'.res = "StartFailed"
               /\ procs' = procs
               /\ vm' = vm
               /\ sandbox_url(vm') = sandbox_url(vm) ]_vars

\* A start was refused on a running VM right after the start that brought
\* it up.
C18_Witness ==
    /\ vmRet.call = "start"
    /\ vmRet.prev = "start"
    /\ vmRet.res = "StartFailed"
    /\ vm.running
    /\ Handles(backend, vm) # {}

\* C19: on every backend stop returns Ok and leaves no process handle, the
\* VM not running and no sandbox URL; a stop that follows a stop changes
\* nothing.
C19_StopTwiceIsNoOp ==
    [][ (vmRet'.n # vmRet.n /\ vmRet'.call = "stop")
            => /\ vmRet'.res = "Ok"
               /\ Handles(backend, vm') = {}
               /\ ~vm'.running
               /\ sandbox_url(vm') = NoUrl
               /\ (vmRet.call = "stop"
                      => vm' = vm /\ procs' = procs /\ distro' = distro) ]_vars

\* A VM that was started has been stopped twice in a row.
C19_Witness ==
    /\ vmRet.call = "stop"
    /\ vmRet.prev = "stop"
    /\ vm.config.some
    /\ \E p \in 1..Len(procs) : procs[p].state = "reaped"

\* C20: when the port never answers, wait_for_health returns HealthTimeout
\* carrying the given timeout, within 150 ms if the timeout is 100 ms, and
\* never later than a retry interval after the timeout.
C20_HealthTimeoutIsPrompt ==
    (health.pc = "idle" /\ health.ret # <<>> /\ ~health.answered)
        => /\ health.ret = <<"HealthTimeout", health.timeout>>
           /\ (health.timeout = 100 => health.elapsed <= 150)
           /\ health.elapsed - health.timeout < RetryInterval

\* ------------------------------------------------------------------------
\* Image staging: stage_image
\* ------------------------------------------------------------------------

MaxMtime == 2
MaxWrites == 3

\* A file with a modification time and a length.
File(mtime, len) == [exists |-> TRUE, mtime |-> mtime, len |-> len]

\* The length GzDecoder writes for a compressed source of length `len`.
Gunzip(len) == 2 * len + 1

\* needs_staging, given that fs::metadata(src) succeeded
needs_staging(gz, src, dest) ==
    IF ~dest.exists THEN TRUE
    ELSE IF src.mtime > dest.mtime THEN TRUE
    ELSE IF ~gz /\ src.len # dest.len THEN TRUE
    ELSE FALSE

\* decompress_gzip: the destination is created now
decompress_gzip(src, now) == File(now, Gunzip(src.len))

\* copy_file: the contents, and the source's modification time unless
\* set_file_mtime fails
copy_file(src, now, kept) == File(IF kept THEN src.mtime ELSE now, src.len)

\* File::create succeeded and the copy or the decompression failed after it.
Truncated(now) == File(now, 0)

\* stage_image returned `ret`, leaving `dest`, after `w` writes of it.
Staged(dest, w, ret) ==
    [img EXCEPT !.dest = dest, !.writes = @ + w, !.ret = ret, !.n = 1 - @,
                !.staged = (ret = "Ok")]

\* stage_image(src, dest)
StageImage ==
    /\ img.writes < MaxWrites
    /\ IF ~img.src.exists THEN img' = Staged(img.dest, 0, "Io")
       ELSE IF ~needs_staging(img.gz, img.src, img.dest)
            THEN img' = Staged(img.dest, 0, "Ok")
       ELSE \E fail \in {"none", "mkdir", "write"}, kept \in BOOLEAN :
               IF fail = "mkdir" THEN img' = Staged(img.dest, 0, "Io")
               ELSE IF fail = "write" THEN img' = Staged(Truncated(clock), 1, "Io")
               ELSE IF img.gz
                    THEN img' = Staged(decompress_gzip(img.src, clock), 1, "Ok")
                    ELSE img' = Staged(copy_file(img.src, clock, kept), 1, "Ok")
    /\ UNCHANGED << importVars, idVars, vmVars, supVars >>

\* The bundled source is replaced by another one (an update of the app).
ReplaceSource ==
    /\ img.src.exists
    /\ \E len \in {1, 2} :
          /\ len # img.src.len
          /\ img' = [img EXCEPT !.src = File(clock, len), !.staged = FALSE]
    /\ UNCHANGED << importVars, idVars, vmVars, supVars >>

\* The source as bundled (its modification time is whatever the bundle
\* carries, earlier or later than the clock of this machine), and a
\* destination left by an earlier version, if any.
InitImg ==
    /\ ImporterAtRest
    /\ VmAtRest
    /\ issued = <<>>
    /\ clock = 1
    /\ env = NoEnv
    /\ tpc = NoThreads
    /\ sup = DesktopServices_new
    /\ locks = NoLocks
    /\ pidFile = NoPidFile
    /\ sigs = <<>>
    /\ \E gz \in BOOLEAN,
          src \in {NoFile} \cup { File(m, l) : m \in 0..MaxMtime, l \in {1, 2} },
          dest \in {NoFile} \cup { File(m, l) : m \in 0..1, l \in {1, 2, 3} } :
          img = [NoImg EXCEPT !.gz = gz, !.src = src, !.dest = dest]

NextImg ==
    \/ StageImage
    \/ ReplaceSource
    \/ Tick

SpecImg == InitImg /\ [][NextImg]_vars

\* C29: stage_image writes the destination only if it is missing, older
\* than the source or, for a source that is not compressed, of another
\* size; and a stage_image that follows a successful one, the source
\* unchanged, writes nothing and leaves the destination as it is.
C29_StagingIsIdempotent ==
    [][ (img'.n # img.n)
            => /\ (img'.writes # img.writes =>
                      \/ ~img.dest.exists
                      \/ img.src.mtime > img.dest.mtime
                      \/ (~img.gz /\ img.src.len # img.dest.len))
               /\ (img.staged => img'.writes = img.writes /\ img'.dest = img.dest) ]_vars

\* ------------------------------------------------------------------------
\* The service supervisor: DesktopServices, main, the PID file
\*
\* Only QemuVM implements VirtualMachine::pid, which start_sandbox_vm
\* calls, so the supervisor is followed on the Linux build.
\* ------------------------------------------------------------------------

\* The binaries start spawns, in order.
Sidecars == <<"d1-shim", "workerd-frontend", "workerd">>

\* A signal sent to `pid`, and what was behind that pid when it was sent.
Signal(ps, pid, sig) == [pid |-> pid, sig |-> sig, state |-> ps[pid].state]

\* libc::kill(pid, 0) == 0
Alive(ps, pid) == pid \in 1..Len(ps) /\ ps[pid].state = "running"

\* cleanup_stale_processes: the signals sent for the lines of the PID file
RECURSIVE StaleSignals(_, _)
StaleSignals(pids, ps) ==
    IF pids = <<>> THEN <<>>
    ELSE (IF Alive(ps, Head(pids))
          THEN << Signal(ps, Head(pids), "TERM"), Signal(ps, Head(pids), "KILL") >>
          ELSE <<>>) \o StaleSignals(Tail(pids), ps)

\* The processes once every signal of `log` has had its effect.
AfterSignals(ps, log) ==
    [p \in 1..Len(ps) |->
        IF \E k \in 1..Len(log) : log[k].pid = p /\ log[k].sig = "KILL"
                                    /\ log[k].state = "running"
        THEN [ps[p] EXCEPT !.state = "reaped"]
        ELSE ps[p]]

\* write_pid_file: std::fs::write opens and truncates the file, then writes
WriteOpen(pf, t) == [pf EXCEPT !.exists = TRUE, !.pids = <<>>, !.busy = @ \cup {t}]

\* write_pid_file: the lines written, lost if the file was removed meanwhile
WriteClose(pf, t, children, vm_pid) ==
    [pf EXCEPT !.pids = IF pf.exists
                        THEN children \o (IF vm_pid = NoProcess THEN <<>> ELSE <<vm_pid>>)
                        ELSE <<>>,
               !.busy = @ \ {t}]

\* std::fs::remove_file(pid_file_path(data_dir))
RemovePidFile(pf) == [pf EXCEPT !.exists = FALSE, !.pids = <<>>]

\* DesktopServices::start returns before anything is done
StartSkipped(e) == e.autostart = "0" \/ ~e.resources \/ ~e.dataDir

\* DesktopServices::start, up to the resolution of the data directory
StartBegin ==
    /\ tpc.proc = "up"
    /\ tpc.main = "start"
    /\ tpc' = [tpc EXCEPT !.main = IF StartSkipped(env) THEN "spawn_worker" ELSE "cleanup"]
    /\ UNCHANGED << env, sup, locks, pidFile, sigs, imgVars, importVars, idVars, vmVars >>

\* cleanup_stale_processes
CleanupStale ==
    /\ tpc.proc = "up"
    /\ tpc.main = "cleanup"
    /\ IF pidFile.exists
       THEN /\ sigs' = sigs \o StaleSignals(pidFile.pids, procs)
            /\ procs' = AfterSignals(procs, StaleSignals(pidFile.pids, procs))
            /\ pidFile' = RemovePidFile(pidFile)
       ELSE UNCHANGED << sigs, procs, pidFile >>
    /\ tpc' = [tpc EXCEPT !.main = "prepare"]
    /\ UNCHANGED << env, sup, locks, imgVars, importVars, idVars,
                    backend, vm, distro, vmRet, health >>

\* start: data_dir is stored; the directories are created and the two
\* binaries staged, and any failure there returns
Prepare ==
    /\ tpc.proc = "up"
    /\ tpc.main = "prepare"
    /\ sup' = [sup EXCEPT !.data_dir = TRUE]
    /\ \E ok \in BOOLEAN :
          tpc' = [tpc EXCEPT !.main = IF ok THEN "spawn" ELSE "spawn_worker", !.i = 1]
    /\ UNCHANGED << env, locks, pidFile, sigs, imgVars, importVars, idVars, vmVars >>

\* Where start goes after the sidecar `i`.
AfterSidecar(t, i) ==
    IF i < Len(Sidecars) THEN [t EXCEPT !.main = "spawn", !.i = i + 1, !.tries = 0]
    ELSE [t EXCEPT !.main = "write", !.tries = 0]

\* `for _ in 0..10` of wait_for_health
ProbeAttempts == 10

\* start calls wait_for_health after the spawn_binary of each workerd,
\* whether or not the spawn succeeded
Probed(i) == Sidecars[i] # "d1-shim"

\* spawn_binary has returned
AfterSpawn(t, i) ==
    IF Probed(i) THEN [t EXCEPT !.main = "probe", !.tries = 0] ELSE AfterSidecar(t, i)

\* spawn_binary up to command.spawn(); the frontend is started only if
\* its resources exist
SpawnBinary ==
    /\ tpc.proc = "up"
    /\ tpc.main = "spawn"
    /\ IF Sidecars[tpc.i] = "workerd-frontend" /\ ~env.frontend
       THEN /\ tpc' = AfterSidecar(tpc, tpc.i)
            /\ UNCHANGED procs
       ELSE \E ok \in BOOLEAN :
               IF ok
               THEN /\ procs' = Spawn(procs, Sidecars[tpc.i])
                    /\ tpc' = [tpc EXCEPT !.main = "push", !.pid = Len(procs) + 1]
               ELSE /\ tpc' = AfterSpawn(tpc, tpc.i)
                    /\ UNCHANGED procs
    /\ UNCHANGED << env, sup, locks, pidFile, sigs, imgVars, importVars, idVars,
                    backend, vm, distro, vmRet, health >>

\* spawn_binary: children.lock() and push
PushChild ==
    /\ tpc.proc = "up"
    /\ tpc.main = "push"
    /\ locks.children = ""
    /\ sup' = [sup EXCEPT !.children = Append(@, tpc.pid)]
    /\ tpc' = AfterSpawn(tpc, tpc.i)
    /\ UNCHANGED << env, locks, pidFile, sigs, imgVars, importVars, idVars, vmVars >>

\* wait_for_health: TcpStream::connect fails, 500 ms of sleep; after the
\* tenth attempt the loop ends and the function returns
ProbeRefused ==
    /\ tpc.proc = "up"
    /\ tpc.main = "probe"
    /\ tpc' = IF tpc.tries + 1 < ProbeAttempts
              THEN [tpc EXCEPT !.tries = @ + 1]
              ELSE AfterSidecar(tpc, tpc.i)
    /\ UNCHANGED << env, sup, locks, pidFile, sigs, imgVars, importVars, idVars, vmVars >>

\* wait_for_health: TcpStream::connect succeeds and the request is
\* written; stream.read, which has no timeout, is next
ProbeConnected ==
    /\ tpc.proc = "up"
    /\ tpc.main = "probe"
    /\ tpc' = [tpc EXCEPT !.main = "probe_read", !.tries = @ + 1]
    /\ UNCHANGED << env, sup, locks, pidFile, sigs, imgVars, importVars, idVars, vmVars >>

\* wait_for_health: the peer sends something or closes the connection,
\* stream.read returns and so does the function
ProbeAnswered ==
    /\ tpc.proc = "up"
    /\ tpc.main = "probe_read"
    /\ tpc' = AfterSidecar(tpc, tpc.i)
    /\ UNCHANGED << env, sup, locks, pidFile, sigs, imgVars, importVars, idVars, vmVars >>

\* start: children.lock() and the beginning of write_pid_file
StartWriteOpen ==
    /\ tpc.proc = "up"
    /\ tpc.main = "write"
    /\ locks.children = ""
    /\ locks' = [locks EXCEPT !.children = "main"]
    /\ pidFile' = WriteOpen(pidFile, "main")
    /\ tpc' = [tpc EXCEPT !.main = "write_end"]
    /\ UNCHANGED << env, sup, sigs, imgVars, importVars, idVars, vmVars >>

\* start: the end of write_pid_file(&data_dir, &children, None)
StartWriteClose ==
    /\ tpc.proc = "up"
    /\ tpc.main = "write_end"
    /\ pidFile' = WriteClose(pidFile, "main", sup.children, NoProcess)
    /\ locks' = [locks EXCEPT !.children = ""]
    /\ tpc' = [tpc EXCEPT !.main = "spawn_worker"]
    /\ UNCHANGED << env, sup, sigs, imgVars, importVars, idVars, vmVars >>

\* main: the background thread for start_sandbox_vm, started whatever
\* DesktopServices::start did, if the resource root and the data
\* directory resolve
SpawnWorker ==
    /\ tpc.proc = "up"
    /\ tpc.main = "spawn_worker"
    /\ tpc' = [tpc EXCEPT !.main = "running",
                          !.worker = IF env.resources /\ env.dataDir THEN "begin" ELSE "none"]
    /\ UNCHANGED << env, sup, locks, pidFile, sigs, imgVars, importVars, idVars, vmVars >>

\* The threads that call shutdown: the event loop of main (on ExitRequested
\* and on Exit) and the interrupt handler.
Callers == {"main", "handler"}

\* RunEvent::ExitRequested, then RunEvent::Exit: each calls shutdown
ExitEvent ==
    /\ tpc.proc = "up"
    /\ tpc.main = "running"
    /\ tpc.exits < 2
    /\ tpc' = [tpc EXCEPT !.main = "sh_vm", !.exits = @ + 1]
    /\ UNCHANGED << env, sup, locks, pidFile, sigs, imgVars, importVars, idVars, vmVars >>

\* The handler given to ctrlc::set_handler runs: it calls shutdown
CtrlC ==
    /\ tpc.proc = "up"
    /\ tpc.handler = "armed"
    /\ tpc' = [tpc EXCEPT !.handler = "sh_vm"]
    /\ UNCHANGED << env, sup, locks, pidFile, sigs, imgVars, importVars, idVars, vmVars >>

\* shutdown: the sandbox_vm lock, and vm.stop() if a VM is stored
ShStopVm(t) ==
    /\ tpc.proc = "up"
    /\ tpc[t] = "sh_vm"
    /\ IF sup.sandbox_vm
       THEN /\ vm' = stop(backend, vm, procs, distro).self
            /\ procs' = stop(backend, vm, procs, distro).procs
       ELSE UNCHANGED << vm, procs >>
    /\ tpc' = [tpc EXCEPT ![t] = "sh_term"]
    /\ UNCHANGED << env, sup, locks, pidFile, sigs, imgVars, importVars, idVars,
                    backend, distro, vmRet, health >>

\* shutdown: the children lock, and SIGTERM to every child of the list
ShTerm(t) ==
    /\ tpc.proc = "up"
    /\ tpc[t] = "sh_term"
    /\ locks.children = ""
    /\ locks' = [locks EXCEPT !.children = t]
    /\ sigs' = sigs \o [k \in 1..Len(sup.children) |-> Signal(procs, sup.children[k], "TERM")]
    /\ tpc' = [tpc EXCEPT ![t] = "sh_kill"]
    /\ UNCHANGED << env, sup, pidFile, imgVars, importVars, idVars, vmVars >>

\* The children of the list whose handle has not been waited for: the ones
\* child.kill() still signals.
Unreaped(children, ps) == SelectSeq(children, LAMBDA c : ps[c].state # "reaped")

ChildrenKept(l) == l

\* shutdown: the `if let Ok(mut children)` block ends and the guard of the
\* children mutex is dropped
ChildrenReleased(l) == [l EXCEPT !.children = ""]

\* shutdown: after the 2 s, child.kill() and child.wait() for every child
\* of the list, which stays as it is; the lock is released
ShKill(t) ==
    /\ tpc.proc = "up"
    /\ tpc[t] = "sh_kill"
    /\ sigs' = sigs \o [k \in 1..Len(Unreaped(sup.children, procs)) |->
                           Signal(procs, Unreaped(sup.children, procs)[k], "KILL")]
    /\ procs' = [p \in 1..Len(procs) |->
                    IF \E k \in 1..Len(sup.children) : sup.children[k] = p
                    THEN [procs[p] EXCEPT !.state = "reaped"]
                    ELSE procs[p]]
    /\ locks' = ChildrenReleased(locks)
    /\ tpc' = [tpc EXCEPT ![t] = "sh_rm"]
    /\ UNCHANGED << env, sup, pidFile, imgVars, importVars, idVars,
                    backend, vm, distro, vmRet, health >>

\* shutdown: the data_dir lock, and remove_file if data_dir is stored
ShRemove(t) ==
    /\ tpc.proc = "up"
    /\ tpc[t] = "sh_rm"
    /\ locks.data_dir = ""
    /\ pidFile' = IF sup.data_dir THEN RemovePidFile(pidFile) ELSE pidFile
    /\ tpc' = [tpc EXCEPT ![t] = "sh_done", !.done = @ + 1]
    /\ UNCHANGED << env, sup, locks, sigs, imgVars, importVars, idVars, vmVars >>

\* After shutdown: the handler calls std::process::exit(0); the event loop
\* waits for Exit after ExitRequested, and the process ends after Exit.
AfterShutdown(t) ==
    /\ tpc.proc = "up"
    /\ tpc[t] = "sh_done"
    /\ tpc' = IF t = "main" /\ tpc.exits < 2 THEN [tpc EXCEPT !.main = "running"]
              ELSE [tpc EXCEPT !.proc = "exited"]
    /\ UNCHANGED << env, sup, locks, pidFile, sigs, imgVars, importVars, idVars, vmVars >>

\* The VMConfig start_sandbox_vm builds.
SandboxConfig == VMConfig(DefaultPort, TRUE)

DropVmLeaks(b, self, ps, d) == Outcome(self, ps, d, "Ok")

\* Drop for the backend, run when start_sandbox_vm returns with `vm` not
\* stored: it calls stop
DropVm(b, self, ps, d) == stop(b, self, ps, d)

WorkerFailedFatal(t, res) == [t EXCEPT !.worker = "failed", !.wres = res, !.proc = "exited"]

\* start_sandbox_vm returns an error, which the thread in main only
\* prints: `vm`, if created, is dropped, and Drop for QemuVM calls stop
WorkerFailed(t, res) == [t EXCEPT !.worker = "failed", !.wres = res]

\* start_sandbox_vm up to create_platform_vm: no image, no VM; staging or
\* the workspace directory may fail
WorkerStage ==
    /\ tpc.proc = "up"
    /\ tpc.worker = "begin"
    /\ IF ~env.image THEN tpc' = [tpc EXCEPT !.worker = "done", !.wres = "Ok"]
       ELSE \E ok \in BOOLEAN :
               tpc' = IF ok THEN [tpc EXCEPT !.worker = "start"] ELSE WorkerFailed(tpc, "Io")
    /\ UNCHANGED << env, sup, locks, pidFile, sigs, imgVars, importVars, idVars, vmVars >>

WorkerStartedUnchecked(t) == [t EXCEPT !.worker = "store"]

\* start_sandbox_vm: after vm.start comes vm.wait_for_health
WorkerStarted(t) == [t EXCEPT !.worker = "health"]

\* start_sandbox_vm: create_platform_vm and vm.start(&config)?
WorkerStart ==
    /\ tpc.proc = "up"
    /\ tpc.worker = "start"
    /\ \E host \in Hosts(backend) :
          IF start(backend, create_platform_vm(backend), SandboxConfig, host, procs, distro).res = "Ok"
          THEN /\ vm' = start(backend, create_platform_vm(backend), SandboxConfig, host, procs, distro).self
               /\ procs' = start(backend, create_platform_vm(backend), SandboxConfig, host, procs, distro).procs
               /\ tpc' = WorkerStarted(tpc)
          ELSE /\ vm' = DropVm(backend,
                             start(backend, create_platform_vm(backend), SandboxConfig, host, procs, distro).self,
                             start(backend, create_platform_vm(backend), SandboxConfig, host, procs, distro).procs,
                             distro).self
               /\ procs' = DropVm(backend,
                                start(backend, create_platform_vm(backend), SandboxConfig, host, procs, distro).self,
                                start(backend, create_platform_vm(backend), SandboxConfig, host, procs, distro).procs,
                                distro).procs
               /\ tpc' = WorkerFailed(tpc,
                             start(backend, create_platform_vm(backend), SandboxConfig, host, procs, distro).res)
    /\ UNCHANGED << env, sup, locks, pidFile, sigs, imgVars, importVars, idVars,
                    backend, distro, vmRet, health >>

\* start_sandbox_vm: vm.wait_for_health(120 s)? returns
WorkerHealth ==
    /\ tpc.proc = "up"
    /\ tpc.worker = "health"
    /\ \E res \in {"Ok", "HealthTimeout"} :
          IF res = "Ok"
          THEN /\ tpc' = [tpc EXCEPT !.worker = "store", !.wres = "Ok"]
               /\ UNCHANGED << vm, procs >>
          ELSE /\ vm' = DropVm(backend, vm, procs, distro).self
               /\ procs' = DropVm(backend, vm, procs, distro).procs
               /\ tpc' = WorkerFailed(tpc, res)
    /\ UNCHANGED << env, sup, locks, pidFile, sigs, imgVars, importVars, idVars,
                    backend, distro, vmRet, health >>

\* start_sandbox_vm: vm_pid = vm.pid(), and the VM is stored
WorkerStore ==
    /\ tpc.proc = "up"
    /\ tpc.worker = "store"
    /\ sup' = [sup EXCEPT !.sandbox_vm = TRUE]
    /\ tpc' = [tpc EXCEPT !.worker = "write", !.vmpid = vm.qemu_process]
    /\ UNCHANGED << env, locks, pidFile, sigs, imgVars, importVars, idVars, vmVars >>

\* start_sandbox_vm: the data_dir lock; nothing is written without data_dir
WorkerWriteLock ==
    /\ tpc.proc = "up"
    /\ tpc.worker = "write"
    /\ locks.data_dir = ""
    /\ IF sup.data_dir
       THEN /\ locks' = [locks EXCEPT !.data_dir = "worker"]
            /\ tpc' = [tpc EXCEPT !.worker = "write_open"]
       ELSE /\ tpc' = [tpc EXCEPT !.worker = "done"]
            /\ UNCHANGED locks
    /\ UNCHANGED << env, sup, pidFile, sigs, imgVars, importVars, idVars, vmVars >>

\* start_sandbox_vm: the children lock and the beginning of write_pid_file
WorkerWriteOpen ==
    /\ tpc.proc = "up"
    /\ tpc.worker = "write_open"
    /\ locks.children = ""
    /\ locks' = [locks EXCEPT !.children = "worker"]
    /\ pidFile' = WriteOpen(pidFile, "worker")
    /\ tpc' = [tpc EXCEPT !.worker = "write_end"]
    /\ UNCHANGED << env, sup, sigs, imgVars, importVars, idVars, vmVars >>

\* start_sandbox_vm: the end of write_pid_file(data_dir, &children, vm_pid)
WorkerWriteClose ==
    /\ tpc.proc = "up"
    /\ tpc.worker = "write_end"
    /\ pidFile' = WriteClose(pidFile, "worker", sup.children, tpc.vmpid)
    /\ locks' = NoLocks
    /\ tpc' = [tpc EXCEPT !.worker = "done"]
    /\ UNCHANGED << env, sup, sigs, imgVars, importVars, idVars, vmVars >>

\* What the previous run left: no PID file, or one that lists a process
\* which is still alive or one which is gone.
StaleRuns ==
    { [procs |-> <<>>, pidFile |-> NoPidFile],
      [procs |-> << [kind |-> "stale", state |-> "running"] >>,
       pidFile |-> [NoPidFile EXCEPT !.exists = TRUE, !.pids = <<1>>]],
      [procs |-> << [kind |-> "stale", state |-> "reaped"] >>,
       pidFile |-> [NoPidFile EXCEPT !.exists = TRUE, !.pids = <<1>>]] }

InitSup ==
    /\ ImporterAtRest
    /\ IdsAtRest
    /\ backend = "linux"
    /\ vm = create_platform_vm(backend)
    /\ distro = "absent"
    /\ vmRet = NoCall
    /\ health = NoHealth
    /\ img = NoImg
    /\ env \in [autostart : {"unset", "0"}, resources : BOOLEAN, dataDir : BOOLEAN,
                frontend : BOOLEAN, image : BOOLEAN]
    /\ tpc = NoThreads
    /\ sup = DesktopServices_new
    /\ locks = NoLocks
    /\ sigs = <<>>
    /\ \E stale \in StaleRuns :
          /\ procs = stale.procs
          /\ pidFile = stale.pidFile

NextSup ==
    \/ StartBegin
    \/ CleanupStale
    \/ Prepare
    \/ SpawnBinary
    \/ PushChild
    \/ ProbeRefused
    \/ ProbeConnected
    \/ ProbeAnswered
    \/ StartWriteOpen
    \/ StartWriteClose
    \/ SpawnWorker
    \/ ExitEvent
    \/ CtrlC
    \/ \E t \in Callers : ShStopVm(t)
    \/ \E t \in Callers : ShTerm(t)
    \/ \E t \in Callers : ShKill(t)
    \/ \E t \in Callers : ShRemove(t)
    \/ \E t \in Callers : AfterShutdown(t)
    \/ WorkerStage
    \/ WorkerStart
    \/ WorkerHealth
    \/ WorkerStore
    \/ WorkerWriteLock
    \/ WorkerWriteOpen
    \/ WorkerWriteClose

SpecSup == InitSup /\ [][NextSup]_vars

\* The lines of the PID file that are the pid of a VM process.
VmPidsInFile ==
    { k \in 1..Len(pidFile.pids) : procs[pidFile.pids[k]].kind = "qemu" }

\* C21: the PID file holds the pid of a VM only if the wait_for_health of
\* that VM has returned Ok.
C21_VmPidOnlyAfterHealth == VmPidsInFile # {} => tpc.wres = "Ok"

\* The PID file lists the sidecars and the VM.
C21_Witness ==
    /\ pidFile.exists
    /\ VmPidsInFile # {}
    /\ Len(pidFile.pids) > 1

\* The processes this supervisor spawned, and those among them that run.
Spawned == { p \in 1..Len(procs) : procs[p].kind # "stale" }
Running(kinds) == { p \in 1..Len(procs) : procs[p].kind \in kinds /\ procs[p].state = "running" }

\* C22: when a shutdown sends the terminate signal to the sidecars, the VM
\* has been stopped: no VM process of this supervisor is running.
C22_VmStoppedBeforeSidecars ==
    [][ (/\ \E t \in Callers : tpc[t] = "sh_term" /\ tpc'[t] = "sh_kill"
         /\ Len(sigs') > Len(sigs))
            => Running({"qemu"}) = {} ]_vars

\* The processes a previous run left in the PID file.
Stale == { p \in 1..Len(procs) : procs[p].kind = "stale" }

\* The signals sent to `p`, in order.
SignalsTo(p) == SelectSeq(sigs, LAMBDA s : s.pid = p)

\* C23: once this supervisor has spawned a child, every process listed in
\* the PID file of the previous run that was alive has been sent TERM and
\* then KILL, and that PID file is gone.
C23_StaleReapedBeforeSpawn ==
    Spawned # {} =>
        \A p \in Stale :
            /\ procs[p].state # "running"
            /\ \A k \in 1..Len(pidFile.pids) : pidFile.pids[k] # p
            /\ SignalsTo(p) \in { <<>>, << [pid |-> p, sig |-> "TERM", state |-> "running"],
                                           [pid |-> p, sig |-> "KILL", state |-> "running"] >> }

\* C24: a shutdown that follows a completed one sends no signal: no signal
\* is ever sent to the PID of a child that an earlier shutdown has reaped.
C24_SecondShutdownSilent ==
    \A k \in 1..Len(sigs) : sigs[k].state # "reaped"

\* C25: once a shutdown has completed and the PID file is gone, no step
\* creates the PID file again.
C25_PidFileNotRecreated ==
    [][ (tpc.done > 0 /\ ~pidFile.exists) => ~pidFile'.exists ]_vars

\* C26: the accesses to the PID file never overlap: at most one thread is
\* inside write_pid_file, and shutdown removes the file only while no
\* thread is inside write_pid_file.
C26_PidFileAccessesSerial ==
    [][ /\ Cardinality(pidFile'.busy) <= 1
        /\ (\E t \in Callers : tpc[t] = "sh_rm" /\ tpc'[t] = "sh_done" /\ sup.data_dir)
              => pidFile.busy = {} ]_vars

\* The kinds of process the supervisor spawns.
Supervised == {"d1-shim", "workerd-frontend", "workerd", "qemu", "virtiofsd"}

\* C27: once a shutdown has completed, no sidecar, VM process or virtio-fs
\* daemon spawned by this supervisor is running.
C27_NothingAliveAfterShutdown ==
    tpc.done > 0 => Running(Supervised) = {}

\* C28: with the autostart flag set to 0, no sidecar and no VM process is
\* ever spawned.
C28_AutostartOffSpawnsNothing ==
    env.autostart = "0" => Spawned = {}

\* C30: a step in which the VM bring-up fails leaves the children list,
\* the PID file, the sidecar processes and the signals sent as they were,
\* and the application goes on running.
C30_VmFailureNonFatal ==
    [][ (tpc.worker # "failed" /\ tpc'.worker = "failed")
            => /\ sup'.children = sup.children
               /\ pidFile' = pidFile
               /\ sigs' = sigs
               /\ \A p \in 1..Len(procs) :
                     procs[p].kind \in {"d1-shim", "workerd-frontend", "workerd"} => procs'[p] = procs[p]
               /\ tpc'.proc = tpc.proc
               /\ tpc'.main = tpc.main
               /\ tpc'.handler = tpc.handler ]_vars

\* The health check of the VM timed out with a sidecar running and listed
\* in the PID file; the application is up.
C30_Witness ==
    /\ tpc.worker = "failed"
    /\ tpc.wres = "HealthTimeout"
    /\ tpc.proc = "up"
    /\ tpc.main = "running"
    /\ Running({"d1-shim", "workerd-frontend", "workerd"}) # {}
    /\ Running({"qemu", "virtiofsd"}) = {}
    /\ pidFile.exists
    /\ Len(pidFile.pids) > 0

\* The PIDs the PID file lists.
Listed == IF pidFile.exists THEN { pidFile.pids[k] : k \in 1..Len(pidFile.pids) } ELSE {}

\* C40: while the application is up, every running process it has spawned
\* is listed in the PID file.
C40_LiveChildrenListed ==
    tpc.proc = "up" => Running(Supervised) \subseteq Listed

\* The steps the program takes by itself. What the user does (the
\* interrupt, closing the window) and what the peer of the health probe
\* does (answer, or close the connection) are left to the environment.
ProgramStep ==
    \/ StartBegin
    \/ CleanupStale
    \/ Prepare
    \/ SpawnBinary
    \/ PushChild
    \/ ProbeRefused
    \/ ProbeConnected
    \/ StartWriteOpen
    \/ StartWriteClose
    \/ SpawnWorker
    \/ \E t \in Callers : ShStopVm(t)
    \/ \E t \in Callers : ShTerm(t)
    \/ \E t \in Callers : ShKill(t)
    \/ \E t \in Callers : ShRemove(t)
    \/ \E t \in Callers : AfterShutdown(t)
    \/ WorkerStage
    \/ WorkerStart
    \/ WorkerHealth
    \/ WorkerStore
    \/ WorkerWriteLock
    \/ WorkerWriteOpen
    \/ WorkerWriteClose

\* The supervisor with every thread scheduled as long as it can run.
SpecSupFair == InitSup /\ [][NextSup]_vars /\ WF_vars(ProgramStep)

\* start is inside wait_for_health.
Probing == tpc.main \in {"probe", "probe_read"}

\* C33: wait_for_health makes at most ten attempts and returns: unless the
\* process exits, a start that is inside the probe gets out of it.
C33_ProbeReturns ==
    /\ [](tpc.tries <= ProbeAttempts)
    /\ Probing ~> (~Probing \/ tpc.proc = "exited")

\* Thread `t` is inside shutdown.
InShutdown(t) == tpc[t] \in {"sh_vm", "sh_term", "sh_kill", "sh_rm"}

\* C35: no interleaving of start, the VM worker and the shutdowns blocks
\* on the mutexes: unless the process exits first, every shutdown that has
\* begun returns.
C35_ShutdownReturns ==
    \A t \in Callers : InShutdown(t) ~> (tpc[t] = "sh_done" \/ tpc.proc = "exited")

\* Two shutdowns have returned, the handler's the later, in a run in which
\* the worker stored the VM and took both locks for its PID file.
C35_Witness ==
    /\ tpc.done >= 2
    /\ tpc.handler = "sh_done"
    /\ tpc.worker = "done"
    /\ tpc.wres = "Ok"
    /\ sup.sandbox_vm
    /\ sup.data_dir
    /\ Len(sup.children) > 0

\* C37: after a failed health check of the VM, the VM process has been
\* killed and reaped, no VM is stored in sandbox_vm, and the PID file does
\* not list the VM's PID.
C37_HealthFailureCleansUp ==
    tpc.wres = "HealthTimeout" =>
        /\ \A p \in 1..Len(procs) : procs[p].kind = "qemu" => procs[p].state = "reaped"
        /\ ~sup.sandbox_vm
        /\ VmPidsInFile = {}

\* The health check failed for a VM that had been spawned, with sidecars
\* listed in the PID file.
C37_Witness ==
    /\ tpc.wres = "HealthTimeout"
    /\ \E p \in 1..Len(procs) : procs[p].kind = "qemu"
    /\ Len(sup.children) > 0
    /\ pidFile.exists
    /\ Len(pidFile.pids) = Len(sup.children)

\* C36: a start of the QEMU backend that returns an error leaves the
\* backend and the processes as they were before the call.
C36_FailedStartLeavesNothing ==
    [][ (backend = "linux" /\ vmRet'.n # vmRet.n /\ vmRet'.call = "start" /\ vmRet'.res # "Ok")
            => /\ procs' = procs
               /\ vm' = vm ]_vars

\* C34: when stage_image has copied an artifact that is not compressed and
\* returns Ok, the destination has the source's contents and the source's
\* modification time.
C34_CopyIsVerbatim ==
    [][ (img'.n # img.n /\ ~img.gz /\ img'.writes # img.writes /\ img'.ret = "Ok")
            => /\ img'.dest.exists
               /\ img'.dest.len = img.src.len
               /\ img'.dest.mtime = img.src.mtime ]_vars

\* What a finished staging of `src` leaves in the destination.
Complete(gz, src) == IF gz THEN Gunzip(src.len) ELSE src.len

\* C38: a stage_image that finds the destination left by an interrupted
\* staging (created, nothing written) and returns Ok has staged the
\* artifact again: the destination is complete.
C38_InterruptedStagingRedone ==
    [][ (img'.n # img.n /\ img.dest.exists /\ img.dest.len = 0 /\ img'.ret = "Ok")
            => /\ img'.writes # img.writes
               /\ img'.dest.len = Complete(img.gz, img.src) ]_vars

\* C31: no step of the importer deletes a directory or a file that existed
\* before it: what safe_create_dir and safe_create_parent_dirs remove on a
\* failed re-verification is only what the same call created.
C31_OnlyCreatedIsRemoved ==
    [][ swaps' = swaps
            => \A p \in DOMAIN fs : fs[p].k # "link" => p \in DOMAIN fs' ]_vars

\* C39: in a directory import every scanned file is processed exactly once:
\* the processed count is the number of entries the copy loop has passed,
\* and the done event carries processed equal to total, the number of
\* scanned files.
C39_DoneProcessedIsTotal ==
    source.kind = "dir" =>
        /\ ScanningEmitted => filesProcessed = fileIdx - 1
        /\ \A i \in 1..Len(events) :
              events[i].phase = "done"
                  => /\ events[i].processed = events[i].total
                     /\ events[i].processed = Len(entries)

\* A directory import of several files, one copied and one failed, has
\* emitted its done event.
C39_Witness ==
    /\ Returned
    /\ source.kind = "dir"
    /\ Len(events) > 0
    /\ events[Len(events)].phase = "done"
    /\ events[Len(events)].processed >= 2
    /\ filesCopied >= 1
    /\ FileErrCount(errors) >= 1

\* The source file the copy step at hand copies, and the entry of the
\* filesystem its destination path names.
CopySrc == IF pc = "file_copy" THEN source.file ELSE entries[fileIdx]
CopyDest ==
    ResolveParent(fs, Phys(IF pc = "file_copy" THEN FileDest
                           ELSE JoinNames(DestRoot, CopySrc.rel))).q

==========================================================================
